---- MODULE Spec2Model ----
(***************************************************************************)
(* A model of the NuclearSmackdown game server: the Game State Engine      *)
(* (src/server/gameState.ts, class GameState, second revision in the file, *)
(* lines 348-1086) and the Synchronization Server that drives it           *)
(* (src/server/gameServer.ts, class GameServer).                           *)
(*                                                                         *)
(* Numbers.  JavaScript numbers are doubles; the model computes with exact *)
(* rationals held in integers:                                             *)
(*   - a player's population is always an integer in the code (3000, +100, *)
(*     -50, minus a floored soldier count) and is kept as that integer;    *)
(*   - a tile's population can be population / n (update), so it is kept   *)
(*     multiplied by PopScale = lcm(1..NumTiles);                          *)
(*   - workerRatio and troopDeployment are kept in tenths (0.2 is 2);      *)
(*   - gold is kept in thousandths (gold 200 is 200000).                   *)
(* Time is in milliseconds; it moves to the next pending timer, or by      *)
(* TimeStep when none is pending.                                          *)
(***************************************************************************)
EXTENDS Integers, Sequences, FiniteSets, TLC

(***************************************************************************)
(* Bounds of the model.                                                    *)
(***************************************************************************)
NumTiles == 7
MaxConns == 2
MaxEvents == 7
MaxSteps == 1
MaxMissiles == 1
MaxRounds == 4
MaxFrequency == 4

(***************************************************************************)
(* Program constants.                                                      *)
(***************************************************************************)
StartGold == 0
StartPopulation == 3000
StartWorkerRatio == 2
StartTroopDeployment == 5
ExpansionCost == 50
StarterTiles == 3
BuildingCost == 100
MissileCost == 200
TravelTime == 15000
DeleteDelay == 3000
BlastRadius == 2
GrowthPeriod == 10000
GrowthAmount == 100
RatioOne == 10
GoldUnit == 1000
InactivityThreshold == 1800000
SnapshotModulus == 10
PingPeriod == 30000
TickPeriod == 100
Mantissa == 53
Places == 64
StaleAfter == 60000

None == 0
NoStructure == "none"

(***************************************************************************)
(* The clock of the model moves by the period of the population growth.    *)
(***************************************************************************)
TimeStep == GrowthPeriod
MaxTime == MaxSteps * TimeStep

(***************************************************************************)
(* The world.  The program builds tileData with ids 0, 1, 2, ... and a     *)
(* symmetric, irreflexive adjacency from centre distances; the model takes *)
(* a small world of the same kind: a path 0-1-...-(NumTiles-1) with tile 0 *)
(* also adjacent to 2, 3 and 4, and one water tile.                        *)
(***************************************************************************)
Tiles == 0 .. (NumTiles - 1)
WaterTiles == {5}
terrainType(t) == IF t \in WaterTiles THEN "water" ELSE "grass"

Neighbours(t) ==
  { u \in Tiles : u # t /\ ( u = t + 1 \/ t = u + 1
                             \/ (t = 0 /\ u \in {2, 3, 4})
                             \/ (u = 0 /\ t \in {2, 3, 4}) ) }

RECURSIVE SortedSeq(_)
SortedSeq(S) ==
  IF S = {} THEN << >>
  ELSE LET m == CHOOSE x \in S : \A y \in S : x <= y
       IN << m >> \o SortedSeq(S \ {m})

(* adjacencyMap.get(t): the neighbour ids in tileData order (ascending id) *)
adjacencyMap(t) == SortedSeq(Neighbours(t))

Range(s) == { s[i] : i \in 1 .. Len(s) }

RECURSIVE Gcd(_, _)
Gcd(a, b) == IF b = 0 THEN a ELSE Gcd(b, a % b)
RECURSIVE LcmUpTo(_)
LcmUpTo(n) == IF n <= 1 THEN 1
              ELSE LET l == LcmUpTo(n - 1) IN (l * n) \div Gcd(l, n)
PopScale == LcmUpTo(NumTiles)

Max(a, b) == IF a >= b THEN a ELSE b

VARIABLES
  players,      \* GameState.players: id -> Player
  tiles,        \* GameState.tiles: id -> GameTile
  missiles,     \* GameState.missiles: id -> Missile
  alliances,    \* GameState.alliances: id -> Alliance
  connections,  \* GameServer.connections: socket -> ClientConnection
  timers,       \* the pending setTimeout callbacks
  now,          \* Date.now()
  lastUpdate,   \* GameState.lastUpdate
  nextId,       \* the ids handed out so far (players, missiles, alliances)
  events,       \* the number of client events handled so far
  last,         \* the last handler that ran and what the Engine returned
  out,          \* the events the last handler sent
  mlog,         \* per missile: what has happened to it so far
  globe         \* GlobeGeometry and GameState.tileData under construction

vars == << players, tiles, missiles, alliances, connections, timers, now,
           lastUpdate, nextId, events, last, out, mlog, globe >>

Conns == 1 .. MaxConns

(***************************************************************************)
(* The world graph builder: GlobeGeometry.generateGlobe subdivides the 20  *)
(* faces of an icosahedron at a frequency, createDualPolyhedron makes one  *)
(* tile per vertex of the subdivided mesh, and GameState.buildAdjacencyMap *)
(* relates the tiles whose centres are near.  The program runs it once, at *)
(* frequency 80; the model runs it at the frequencies 1 .. MaxFrequency.   *)
(*                                                                         *)
(* A coordinate of an icosahedron vertex is 0, +-1 or +-phi; a coordinate  *)
(* is the pair << m, n >> for m + n * phi, so that sums of vertices with   *)
(* whole weights are exact.                                                *)
(***************************************************************************)
Frequencies == 1 .. MaxFrequency

IcoVertices ==
  << << << -1, 0 >>, << 0, 1 >>, << 0, 0 >> >>,
     << << 1, 0 >>, << 0, 1 >>, << 0, 0 >> >>,
     << << -1, 0 >>, << 0, -1 >>, << 0, 0 >> >>,
     << << 1, 0 >>, << 0, -1 >>, << 0, 0 >> >>,
     << << 0, 0 >>, << -1, 0 >>, << 0, 1 >> >>,
     << << 0, 0 >>, << 1, 0 >>, << 0, 1 >> >>,
     << << 0, 0 >>, << -1, 0 >>, << 0, -1 >> >>,
     << << 0, 0 >>, << 1, 0 >>, << 0, -1 >> >>,
     << << 0, 1 >>, << 0, 0 >>, << -1, 0 >> >>,
     << << 0, 1 >>, << 0, 0 >>, << 1, 0 >> >>,
     << << 0, -1 >>, << 0, 0 >>, << -1, 0 >> >>,
     << << 0, -1 >>, << 0, 0 >>, << 1, 0 >> >> >>

IcoFaces ==
  << << 0, 11, 5 >>, << 0, 5, 1 >>, << 0, 1, 7 >>, << 0, 7, 10 >>,
     << 0, 10, 11 >>, << 1, 5, 9 >>, << 5, 11, 4 >>, << 11, 10, 2 >>,
     << 10, 7, 6 >>, << 7, 1, 8 >>, << 3, 9, 4 >>, << 3, 4, 2 >>,
     << 3, 2, 6 >>, << 3, 6, 8 >>, << 3, 8, 9 >>, << 4, 9, 5 >>,
     << 2, 4, 11 >>, << 6, 2, 10 >>, << 8, 6, 7 >>, << 9, 8, 1 >> >>

Axes == 1 .. 3
IcoVertex(v) == IcoVertices[v + 1]
Sgn(n) == IF n > 0 THEN 1 ELSE IF n < 0 THEN -1 ELSE 0

(***************************************************************************)
(* The weights u = i / frequency, v = j / frequency, w = 1 - u - v are     *)
(* binary64 numbers.  A number from 0 to 1 is the sequence of its binary   *)
(* digits, the units digit first and Places digits after the point; every  *)
(* operation rounds its exact result to Mantissa significant digits, to    *)
(* nearest, ties to even.                                                  *)
(***************************************************************************)
Digits == 1 .. (Places + 1)

(* 2^k modulo f, by repeated squaring                                      *)
RECURSIVE Pow2Mod(_, _)
Pow2Mod(k, f) ==
  IF k = 0 THEN 1 % f
  ELSE LET h == Pow2Mod(k \div 2, f)
       IN (h * h * (IF k % 2 = 1 THEN 2 ELSE 1)) % f

(* the first n binary digits of rem / f after the point, and what is left  *)
Expand(rem, f, n) ==
  SubSeq([ k \in 1 .. n |-> (2 * ((Pow2Mod(k - 1, f) * rem) % f)) \div f ],
         1, n)

Remainder(rem, f, n) == (Pow2Mod(n, f) * rem) % f

(* the digits as a sequence                                                *)
Stored(x) == SubSeq(x, 1, Places + 1)

BinaryZero == Stored([ k \in Digits |-> 0 ])
BinaryOne == Stored([ k \in Digits |-> IF k = 1 THEN 1 ELSE 0 ])

RoundNearestEven(x, sticky) ==
  IF x = BinaryZero THEN x
  ELSE
    LET lead == CHOOSE k \in Digits :
                  x[k] = 1 /\ \A q \in 1 .. (k - 1) : x[q] = 0
        low == lead + Mantissa - 1
    IN IF low >= Places + 1 THEN x
       ELSE
         LET rest == sticky \/ \E k \in (low + 2) .. (Places + 1) : x[k] = 1
             up == x[low + 1] = 1 /\ (rest \/ x[low] = 1)
             kept == Stored([ k \in Digits |-> IF k <= low THEN x[k] ELSE 0 ])
             p == CHOOSE p \in 1 .. low :
                    kept[p] = 0 /\ \A q \in (p + 1) .. low : kept[q] = 1
         IN IF up
            THEN Stored([ k \in Digits |-> IF k < p THEN kept[k]
                                           ELSE IF k = p THEN 1 ELSE 0 ])
            ELSE kept

(* x is below y in the digits after the k-th                               *)
BinaryLess(x, y, k) ==
  \E p \in (k + 1) .. (Places + 1) :
    x[p] < y[p] /\ \A q \in (k + 1) .. (p - 1) : x[q] = y[q]

(* i / f for 0 <= i <= f                                                   *)
Divide(i, f) ==
  RoundNearestEven(<< i \div f >> \o Expand(i % f, f, Places),
                   Remainder(i % f, f, Places) # 0)

(* x - y for y <= x                                                        *)
Subtract(x, y) ==
  RoundNearestEven(
    Stored([ k \in Digits |->
               (x[k] - y[k] - (IF BinaryLess(x, y, k) THEN 1 ELSE 0)) % 2 ]),
    FALSE)

(* the sign of w = 1 - u - v where i + j = f: the weight that is 0 in      *)
(* exact arithmetic.  The last subtraction cannot round a difference that  *)
(* is not 0 to 0, so the sign of w is that of (1 - u) compared with v.     *)
ResidualSign(i, f) ==
  LET t == Subtract(BinaryOne, Divide(i, f))
      v == Divide(f - i, f)
  IN IF BinaryLess(t, v, 0) THEN -1 ELSE IF BinaryLess(v, t, 0) THEN 1 ELSE 0

(* the residual signs of every frequency, computed once: Residual[f][i + 1] *)
(* is the sign for the weights i / f and (f - i) / f                       *)
Residual ==
  SubSeq([ f \in 1 .. MaxFrequency |->
             SubSeq([ n \in 1 .. (f + 1) |-> ResidualSign(n - 1, f) ],
                    1, f + 1) ],
         1, MaxFrequency)

(***************************************************************************)
(* A point of the subdivided mesh: face is the triple of icosahedron       *)
(* vertices a, b, c and the point is w * a + u * b + v * c, normalised.    *)
(* ExactPoint is f times the point before normalisation.                   *)
(***************************************************************************)
Weights(i, j, f) == << f - i - j, i, j >>

ExactPoint(face, i, j, f) ==
  [ axis \in Axes |->
     << Weights(i, j, f)[1] * IcoVertex(face[1])[axis][1]
          + Weights(i, j, f)[2] * IcoVertex(face[2])[axis][1]
          + Weights(i, j, f)[3] * IcoVertex(face[3])[axis][1],
        Weights(i, j, f)[1] * IcoVertex(face[1])[axis][2]
          + Weights(i, j, f)[2] * IcoVertex(face[2])[axis][2]
          + Weights(i, j, f)[3] * IcoVertex(face[3])[axis][2] >> ]

(* the signs of the three weights as computed                              *)
WeightSigns(i, j, f) ==
  << IF i + j < f THEN 1 ELSE Residual[f][i + 1], Sgn(i), Sgn(j) >>

(* A coordinate that is 0 in exact arithmetic is computed as the sum of    *)
(* its three terms.  When one term only is not 0, which is the case of a   *)
(* residual weight on a vertex off the plane of the other two, the sum has *)
(* the sign of that term; terms that cancel in exact arithmetic have equal *)
(* weights on a seam and cancel as computed.                               *)
ComputedNegative(face, i, j, f, axis) ==
  LET terms == { n \in 1 .. 3 :
                   /\ WeightSigns(i, j, f)[n] # 0
                   /\ IcoVertex(face[n])[axis] # << 0, 0 >> }
  IN /\ ExactPoint(face, i, j, f)[axis] = << 0, 0 >>
     /\ Cardinality(terms) = 1
     /\ \E n \in terms :
          WeightSigns(i, j, f)[n]
            * Sgn(IcoVertex(face[n])[axis][1] + IcoVertex(face[n])[axis][2]) < 0

(* mutant of PointKey: the key tells the faces apart, nothing is merged    *)
PointKeyOfFace(face, i, j, f) ==
  [ point |-> ExactPoint(face, i, j, f), negative |-> { face } ]

(* the key of the vertex map: the three coordinates written with toFixed.  *)
(* The digits of equal points agree; toFixed writes a negative number that *)
(* rounds to zero as "-0.0000000000" and zero as "0.0000000000".           *)
PointKey(face, i, j, f) ==
  [ point |-> ExactPoint(face, i, j, f),
    negative |-> { axis \in Axes : ComputedNegative(face, i, j, f, axis) } ]

(* the points of one face in the order of the two loops over i and j       *)
GridSize(f) == ((f + 1) * (f + 2)) \div 2
RowStart(i, f) == i * (f + 1) - (i * (i - 1)) \div 2
Grid ==
  [ f \in Frequencies |->
      [ n \in 1 .. GridSize(f) |->
          CHOOSE ij \in (0 .. f) \X (0 .. f) :
            ij[2] <= f - ij[1] /\ RowStart(ij[1], f) + ij[2] + 1 = n ] ]

IndexOf(keys, key) == (CHOOSE k \in 1 .. Len(keys) : keys[k] = key) - 1

(* the first pair of loops of a face: the vertex map grows by the keys not *)
(* yet in it and faceIndices lists the vertex of every grid point          *)
AddPoints(keys, face, f) ==
  LET faceKeys == [ n \in 1 .. GridSize(f) |->
                      PointKey(face, Grid[f][n][1], Grid[f][n][2], f) ]
      fresh == SelectSeq([ n \in 1 .. GridSize(f) |-> n ],
                         LAMBDA n :
                           /\ \A k \in 1 .. Len(keys) : keys[k] # faceKeys[n]
                           /\ \A m \in 1 .. (n - 1) : faceKeys[m] # faceKeys[n])
      grown == keys \o [ k \in 1 .. Len(fresh) |-> faceKeys[fresh[k]] ]
  IN [ subdividedVertices |-> grown,
       faceIndices |-> [ n \in 1 .. GridSize(f) |->
                           IndexOf(grown, faceKeys[n]) ] ]

(* the second pair of loops of a face: the triangles of the grid, the one  *)
(* at a grid point and the second one when the point is not on the edge    *)
GridFaces(faceIndices, f) ==
  LET turns == SelectSeq(
                 [ m \in 1 .. (2 * GridSize(f)) |->
                     << (m + 1) \div 2, 2 - (m % 2) >> ],
                 LAMBDA t :
                   LET i == Grid[f][t[1]][1]
                       j == Grid[f][t[1]][2]
                   IN /\ i < f
                      /\ j < f - i
                      /\ t[2] = 2 => j < f - i - 1)
  IN [ k \in 1 .. Len(turns) |->
         LET n == turns[k][1]
             rowLength == f - Grid[f][n][1] + 1
         IN IF turns[k][2] = 1
            THEN << faceIndices[n], faceIndices[n + 1],
                    faceIndices[n + rowLength] >>
            ELSE << faceIndices[n + 1], faceIndices[n + rowLength + 1],
                    faceIndices[n + rowLength] >> ]

(* the keys of the vertexToFaces map in the order of their insertion       *)
InsertionOrder(faces) ==
  LET flat == [ n \in 1 .. (3 * Len(faces)) |->
                  faces[((n - 1) \div 3) + 1][((n - 1) % 3) + 1] ]
      first == { n \in DOMAIN flat : \A m \in 1 .. (n - 1) : flat[m] # flat[n] }
  IN [ k \in 1 .. Cardinality(first) |->
         flat[CHOOSE n \in first :
                Cardinality({ m \in first : m < n }) = k - 1] ]

(* vertexToFaces.get(v): the faces that list the vertex                    *)
AdjacentFaces(faces, v) ==
  SelectSeq([ n \in 1 .. Len(faces) |-> n ],
            LAMBDA n : \E k \in 1 .. 3 : faces[n][k] = v)

(* the tile type from the number of faces around the vertex                *)
TileType(n) ==
  IF n = 5 THEN "pentagon"
  ELSE IF n = 3 THEN "triangle"
  ELSE IF n = 4 THEN "quad" ELSE "hexagon"

(* Positions for the distances of buildAdjacencyMap.  The program takes    *)
(* the points on the unit sphere; the model takes them on the faces of the *)
(* icosahedron, with phi as 13 / 8, in whole units: a mesh vertex in units *)
(* of 1 / (8 f), a tile centre, the mean of the centroids of the faces     *)
(* around the vertex, in units of 1 / (1440 f).  The program sorts the     *)
(* faces by angle and keeps six of more than six; no vertex of the meshes  *)
(* built here has more than six.                                           *)
Position(key) == [ axis \in Axes |->
                     8 * key.point[axis][1] + 13 * key.point[axis][2] ]

TileCenter(vertices, faces, around) ==
  LET kept == SubSeq(around, 1, IF Len(around) > 6 THEN 6 ELSE Len(around))
      share == 60 \div Len(kept)
  IN [ axis \in Axes |->
         LET RECURSIVE Sum(_)
             Sum(n) == IF n = 0 THEN 0
                       ELSE Sum(n - 1)
                            + Position(vertices[faces[kept[n]][1] + 1])[axis]
                            + Position(vertices[faces[kept[n]][2] + 1])[axis]
                            + Position(vertices[faces[kept[n]][3] + 1])[axis]
         IN share * Sum(Len(kept)) ]

(* neighborThreshold is 0.025 on the unit sphere at frequency 80, that is  *)
(* 1.9 steps of the mesh (an edge of the icosahedron is 1.05 and a step    *)
(* 1.05 / 80); a step is 2880 units of the tile centres at every frequency *)
NeighborThreshold == 5478

Distance2(a, b) ==
  (a[1] - b[1]) * (a[1] - b[1]) + (a[2] - b[2]) * (a[2] - b[2])
    + (a[3] - b[3]) * (a[3] - b[3])

(* mutant of buildAdjacencyMap: a tile is not told from itself             *)
buildAdjacencyMapWithSelf(tileData) ==
  [ id \in { tileData[n].id : n \in DOMAIN tileData } |->
      LET tile == tileData[CHOOSE n \in DOMAIN tileData : tileData[n].id = id]
      IN { tileData[n].id : n \in
             { n \in DOMAIN tileData :
                 Distance2(tile.center, tileData[n].center)
                   < NeighborThreshold * NeighborThreshold } } ]

(* GameState.buildAdjacencyMap over the tileData                           *)
buildAdjacencyMap(tileData) ==
  [ id \in { tileData[n].id : n \in DOMAIN tileData } |->
      LET tile == tileData[CHOOSE n \in DOMAIN tileData : tileData[n].id = id]
      IN { tileData[n].id : n \in
             { n \in DOMAIN tileData :
                 /\ tile.id # tileData[n].id
                 /\ Distance2(tile.center, tileData[n].center)
                      < NeighborThreshold * NeighborThreshold } } ]

(* the world of the other specifications is the small world above: their   *)
(* server starts with the world built                                      *)
Built == [ stage |-> "built" ]

(***************************************************************************)
(* The Engine.  Each operation is an operator on the Engine's state        *)
(*   G = [players, tiles, missiles, alliances, timers]                     *)
(* and returns the ActionResult (success, error, data) together with the   *)
(* state the call leaves behind.                                           *)
(***************************************************************************)
Engine == [ players |-> players, tiles |-> tiles, missiles |-> missiles,
            alliances |-> alliances, timers |-> timers ]

NoData == [ type |-> "none", claimedTiles |-> << >>, id |-> None ]

Result(G, ok, err, data) ==
  [ success |-> ok, error |-> err, data |-> data,
    players |-> G.players, tiles |-> G.tiles, missiles |-> G.missiles,
    alliances |-> G.alliances, timers |-> G.timers ]

Failure(G, err) == Result(G, FALSE, err, NoData)

StateOf(r) == [ players |-> r.players, tiles |-> r.tiles,
                missiles |-> r.missiles, alliances |-> r.alliances,
                timers |-> r.timers ]

HasPlayer(G, p) == p \in DOMAIN G.players
HasTile(t) == t \in Tiles
(* this.tileData.find(t => t.id === id): tiles are built from tileData     *)
HasTileData(t) == t \in Tiles

(* Math.floor(population * (1 - workerRatio)), population an integer       *)
Soldiers(population, workerRatio) ==
  (population * (RatioOne - workerRatio)) \div RatioOne

(* Math.floor(tile.population * (1 - workerRatio)), tile population scaled *)
TileSoldiers(scaledPopulation, workerRatio) ==
  (scaledPopulation * (RatioOne - workerRatio)) \div (RatioOne * PopScale)

OwnedTiles(G, p) == { t \in Tiles : G.tiles[t].ownerId = p }

spawnPlayer(G, id, t) ==
  [ G EXCEPT !.players =
      [ q \in DOMAIN G.players \cup {id} |->
          IF q = id
          THEN [ gold |-> StartGold * GoldUnit,
                 population |-> StartPopulation,
                 workerRatio |-> StartWorkerRatio,
                 troopDeployment |-> StartTroopDeployment,
                 allianceId |-> None,
                 lastActive |-> t,
                 lastPopulationGrowth |-> t ]
          ELSE G.players[q] ] ]

(* mutant of removePlayer: the missiles of the player go with it           *)
removePlayerWithMissiles(G, p) ==
  IF ~HasPlayer(G, p) THEN G
  ELSE [ G EXCEPT
           !.tiles = [ t \in Tiles |->
                         IF G.tiles[t].ownerId = p
                         THEN [ G.tiles[t] EXCEPT !.ownerId = None,
                                                  !.population = 0 ]
                         ELSE G.tiles[t] ],
           !.players = [ q \in DOMAIN G.players \ {p} |-> G.players[q] ],
           !.missiles = [ m \in { n \in DOMAIN G.missiles :
                                    G.missiles[n].playerId # p }
                            |-> G.missiles[m] ] ]

(* mutant of removePlayer: the home tile keeps its owner                   *)
removePlayerKeepsHome(G, p) ==
  IF ~HasPlayer(G, p) THEN G
  ELSE [ G EXCEPT
           !.tiles = [ t \in Tiles |->
                         IF /\ G.tiles[t].ownerId = p
                            /\ G.tiles[t].structureType # "base_hq"
                         THEN [ G.tiles[t] EXCEPT !.ownerId = None,
                                                  !.population = 0 ]
                         ELSE G.tiles[t] ],
           !.players = [ q \in DOMAIN G.players \ {p} |-> G.players[q] ] ]

(* mutant of removePlayer: the player goes, the tiles keep their owner     *)
removePlayerKeepsTiles(G, p) ==
  IF ~HasPlayer(G, p) THEN G
  ELSE [ G EXCEPT
           !.players = [ q \in DOMAIN G.players \ {p} |-> G.players[q] ] ]

removePlayer(G, p) ==
  IF ~HasPlayer(G, p) THEN G
  ELSE [ G EXCEPT
           !.tiles = [ t \in Tiles |->
                         IF G.tiles[t].ownerId = p
                         THEN [ G.tiles[t] EXCEPT !.ownerId = None,
                                                  !.population = 0 ]
                         ELSE G.tiles[t] ],
           !.players = [ q \in DOMAIN G.players \ {p} |-> G.players[q] ] ]

isAdjacentToOwnTerritory(G, p, t) ==
  \E i \in 1 .. Len(adjacencyMap(t)) : G.tiles[adjacencyMap(t)[i]].ownerId = p

isAdjacentToWater(t) ==
  \E i \in 1 .. Len(adjacencyMap(t)) : terrainType(adjacencyMap(t)[i]) = "water"

(* selectTile, first selection: the loop over the neighbours of the home   *)
(* tile, claiming up to StarterTiles unowned non-water ones                *)
RECURSIVE ClaimStarterTiles(_, _, _, _, _, _)
ClaimStarterTiles(tl, p, adj, i, claimed, count) ==
  IF i > Len(adj) \/ count >= StarterTiles
  THEN [ tiles |-> tl, claimedTiles |-> claimed ]
  ELSE LET a == adj[i] IN
       IF tl[a].ownerId = None /\ terrainType(a) # "water"
       THEN ClaimStarterTiles([ tl EXCEPT ![a].ownerId = p ], p, adj, i + 1,
                              Append(claimed, a), count + 1)
       ELSE ClaimStarterTiles(tl, p, adj, i + 1, claimed, count)

(* selectTile, expansion: the candidate Set in insertion order: for each   *)
(* owned tile in id order, its unowned non-water neighbours                *)
RECURSIVE AddCandidates(_, _, _, _)
AddCandidates(G, adj, i, cands) ==
  IF i > Len(adj) THEN cands
  ELSE LET a == adj[i] IN
       IF G.tiles[a].ownerId = None /\ terrainType(a) # "water"
          /\ a \notin Range(cands)
       THEN AddCandidates(G, adj, i + 1, Append(cands, a))
       ELSE AddCandidates(G, adj, i + 1, cands)

RECURSIVE CollectCandidates(_, _, _, _)
CollectCandidates(G, owned, i, cands) ==
  IF i > Len(owned) THEN cands
  ELSE CollectCandidates(G, owned, i + 1,
                         AddCandidates(G, adjacencyMap(owned[i]), 1, cands))

Candidates(G, p) == CollectCandidates(G, SortedSeq(OwnedTiles(G, p)), 1, << >>)

Without(s, x) == SelectSeq(s, LAMBDA y : y # x)

(* mutant of ClaimLoop: the candidates are taken in their own order, the   *)
(* selected tile is not put first, and the loop stops after one tile       *)
ClaimLoopFirstCandidate(G, p, tileId, cands, selectedClaimed, claimed, t) ==
  LET pl == G.players[p] IN
  IF Len(cands) = 0 \/ Soldiers(pl.population, pl.workerRatio) < ExpansionCost
  THEN [ G |-> G, claimedTiles |-> claimed ]
  ELSE [ G |-> [ G EXCEPT !.tiles[cands[1]].ownerId = p,
                          !.players[p].population = @ - ExpansionCost,
                          !.players[p].lastActive = t ],
         claimedTiles |-> Append(claimed, cands[1]) ]

(* selectTile, expansion: the while loop that claims candidates, the       *)
(* selected tile first, while the player has at least 50 soldiers          *)
RECURSIVE ClaimLoop(_, _, _, _, _, _, _)
ClaimLoop(G, p, tileId, cands, selectedClaimed, claimed, t) ==
  LET pl == G.players[p] IN
  IF Len(cands) = 0 \/ Soldiers(pl.population, pl.workerRatio) < ExpansionCost
  THEN [ G |-> G, claimedTiles |-> claimed ]
  ELSE LET pick == ~selectedClaimed /\ tileId \in Range(cands)
           toClaim == IF pick THEN tileId ELSE cands[1]
           G1 == [ G EXCEPT
                     !.tiles[toClaim].ownerId = p,
                     !.players[p].population = @ - ExpansionCost,
                     !.players[p].lastActive = t ]
       IN ClaimLoop(G1, p, tileId, Without(cands, toClaim),
                    selectedClaimed \/ pick, Append(claimed, toClaim), t)

(* Math.max(0, population - loss)                                          *)
LosePopulation(population, loss) == Max(0, population - loss)

(* mutant of CombatAttackerWins: the attacker does not pay for the win     *)
CombatAttackerWinsUnpaid(G, a, d, t, A, D) ==
  Result([ G EXCEPT
             !.tiles[t].ownerId = a,
             !.tiles[t].population = (A - D) * PopScale,
             !.players[d].population = LosePopulation(@, D) ],
         TRUE, "none", [ NoData EXCEPT !.type = "captured" ])

CombatAttackerWins(G, a, d, t, A, D) ==
  Result([ G EXCEPT
             !.tiles[t].ownerId = a,
             !.tiles[t].population = (A - D) * PopScale,
             !.players[d].population = LosePopulation(@, D),
             !.players[a].population = LosePopulation(@, D) ],
         TRUE, "none", [ NoData EXCEPT !.type = "captured" ])

CombatDefenderWins(G, a, d, t, A, D) ==
  Result([ G EXCEPT
             !.players[a].population = LosePopulation(@, A),
             !.tiles[t].population = (D - A) * PopScale ],
         FALSE, "defended", NoData)

CombatDraw(G, a, d, t, A, D) ==
  Result([ G EXCEPT
             !.players[a].population = LosePopulation(@, A),
             !.tiles[t].population = 0,
             !.tiles[t].ownerId = None ],
         TRUE, "none", [ NoData EXCEPT !.type = "draw" ])

initiateCombat(G, a, t) ==
  IF ~HasPlayer(G, a) \/ ~HasTile(t)
  THEN Failure(G, "Combat error: Player or tile not found")
  ELSE LET d == G.tiles[t].ownerId IN
    IF ~HasPlayer(G, d)
    THEN Failure(G, "Combat error: Defending player not found")
    ELSE LET A == Soldiers(G.players[a].population, G.players[a].workerRatio)
             D == TileSoldiers(G.tiles[t].population, G.players[d].workerRatio)
         IN IF A > D THEN CombatAttackerWins(G, a, d, t, A, D)
            ELSE IF D > A THEN CombatDefenderWins(G, a, d, t, A, D)
            ELSE CombatDraw(G, a, d, t, A, D)

(* mutant of FirstSelection: the home tile is paid for like an expansion  *)
FirstSelectionCharged(G, p, t, time) ==
  LET home == [ G.tiles EXCEPT ![t].ownerId = p, ![t].structureType = "base_hq" ]
      c == ClaimStarterTiles(home, p, adjacencyMap(t), 1, << t >>, 0)
  IN Result([ G EXCEPT !.tiles = c.tiles, !.players[p].lastActive = time,
                       !.players[p].population = @ - ExpansionCost ],
            TRUE, "none",
            [ NoData EXCEPT !.type = "claimed", !.claimedTiles = c.claimedTiles ])

FirstSelection(G, p, t, time) ==
  LET home == [ G.tiles EXCEPT ![t].ownerId = p, ![t].structureType = "base_hq" ]
      c == ClaimStarterTiles(home, p, adjacencyMap(t), 1, << t >>, 0)
  IN Result([ G EXCEPT !.tiles = c.tiles, !.players[p].lastActive = time ],
            TRUE, "none",
            [ NoData EXCEPT !.type = "claimed", !.claimedTiles = c.claimedTiles ])

Expansion(G, p, t, time) ==
  IF ~isAdjacentToOwnTerritory(G, p, t)
  THEN Failure(G, "Tile not adjacent to your territory")
  ELSE LET cands == Candidates(G, p) IN
    IF t \notin Range(cands)
    THEN Failure(G, "Selected tile not expandable")
    ELSE LET c == ClaimLoop(G, p, t, cands, FALSE, << >>, time) IN
      IF Len(c.claimedTiles) = 0
      THEN Result(c.G, FALSE, "Not enough soldiers (need at least 50)", NoData)
      ELSE Result(c.G, TRUE, "none",
                  [ NoData EXCEPT !.type = "claimed",
                                  !.claimedTiles = c.claimedTiles ])

(* mutant of selectTile: the water check is missing                        *)
selectTileOnWater(G, p, t, time) ==
  IF ~HasPlayer(G, p) THEN Failure(G, "Player not found")
  ELSE IF ~HasTile(t) THEN Failure(G, "Tile not found")
  ELSE IF G.tiles[t].ownerId = p
  THEN Result(G, TRUE, "none", [ NoData EXCEPT !.type = "building_options" ])
  ELSE IF G.tiles[t].ownerId # None THEN initiateCombat(G, p, t)
  ELSE IF OwnedTiles(G, p) = {} THEN FirstSelection(G, p, t, time)
  ELSE Expansion(G, p, t, time)

selectTile(G, p, t, time) ==
  IF ~HasPlayer(G, p) THEN Failure(G, "Player not found")
  ELSE IF ~HasTile(t) THEN Failure(G, "Tile not found")
  ELSE IF G.tiles[t].ownerId = p
  THEN Result(G, TRUE, "none", [ NoData EXCEPT !.type = "building_options" ])
  ELSE IF G.tiles[t].ownerId # None THEN initiateCombat(G, p, t)
  ELSE IF terrainType(t) = "water" THEN Failure(G, "Cannot claim water tiles")
  ELSE IF OwnedTiles(G, p) = {} THEN FirstSelection(G, p, t, time)
  ELSE Expansion(G, p, t, time)

(* mutant of adjustWorkerRatio: the range check is missing                 *)
adjustWorkerRatioUnchecked(G, p, ratio, time) ==
  IF ~HasPlayer(G, p) THEN Failure(G, "Player not found")
  ELSE Result([ G EXCEPT !.players[p].workerRatio = ratio,
                         !.players[p].lastActive = time ],
              TRUE, "none", NoData)

adjustWorkerRatio(G, p, ratio, time) ==
  IF ~HasPlayer(G, p) THEN Failure(G, "Player not found")
  ELSE IF ratio < 0 \/ ratio > RatioOne
  THEN Failure(G, "Ratio must be between 0 and 1")
  ELSE Result([ G EXCEPT !.players[p].workerRatio = ratio,
                         !.players[p].lastActive = time ],
              TRUE, "none", NoData)

adjustTroopDeployment(G, p, deployment, time) ==
  IF ~HasPlayer(G, p) THEN Failure(G, "Player not found")
  ELSE IF deployment < 0 \/ deployment > RatioOne
  THEN Failure(G, "Deployment must be between 0 and 1")
  ELSE Result([ G EXCEPT !.players[p].troopDeployment = deployment,
                         !.players[p].lastActive = time ],
              TRUE, "none", NoData)

(* mutant of buildStructure: the check of an existing structure is        *)
(* missing                                                                 *)
buildStructureOverwrites(G, p, t, structureType, time) ==
  IF ~HasPlayer(G, p) THEN Failure(G, "Player not found")
  ELSE IF ~HasTile(t) THEN Failure(G, "Tile not found")
  ELSE IF G.tiles[t].ownerId # p THEN Failure(G, "You do not own this tile")
  ELSE IF G.players[p].gold < BuildingCost * GoldUnit
  THEN Failure(G, "Need 100 gold")
  ELSE IF structureType = "port" /\ ~isAdjacentToWater(t)
  THEN Failure(G, "Port must be adjacent to water")
  ELSE Result([ G EXCEPT !.players[p].gold = @ - BuildingCost * GoldUnit,
                         !.players[p].lastActive = time,
                         !.tiles[t].structureType = structureType ],
              TRUE, "none", [ NoData EXCEPT !.type = "tile", !.id = t ])

buildStructure(G, p, t, structureType, time) ==
  IF ~HasPlayer(G, p) THEN Failure(G, "Player not found")
  ELSE IF ~HasTile(t) THEN Failure(G, "Tile not found")
  ELSE IF G.tiles[t].ownerId # p THEN Failure(G, "You do not own this tile")
  ELSE IF G.players[p].gold < BuildingCost * GoldUnit
  THEN Failure(G, "Need 100 gold")
  ELSE IF structureType = "port" /\ ~isAdjacentToWater(t)
  THEN Failure(G, "Port must be adjacent to water")
  ELSE IF G.tiles[t].structureType # NoStructure
  THEN Failure(G, "Tile already has a structure")
  ELSE Result([ G EXCEPT !.players[p].gold = @ - BuildingCost * GoldUnit,
                         !.players[p].lastActive = time,
                         !.tiles[t].structureType = structureType ],
              TRUE, "none", [ NoData EXCEPT !.type = "tile", !.id = t ])

(* a function with one more (or one replaced) entry, and with one fewer    *)
Put(f, k, v) == [ x \in DOMAIN f \cup {k} |-> IF x = k THEN v ELSE f[x] ]
Drop(f, k) == [ x \in DOMAIN f \ {k} |-> f[x] ]

launchMissile(G, p, fromTileId, toTileId, id, time) ==
  IF ~HasPlayer(G, p) THEN Failure(G, "Player not found")
  ELSE IF ~HasTile(fromTileId) \/ ~HasTile(toTileId)
  THEN Failure(G, "Tile not found")
  ELSE IF G.players[p].gold < MissileCost * GoldUnit
  THEN Failure(G, "Need 200 gold to launch missile")
  ELSE LET G1 == [ G EXCEPT !.players[p].gold = @ - MissileCost * GoldUnit ] IN
    IF ~HasTileData(fromTileId) \/ ~HasTileData(toTileId)
    THEN Failure(G1, "Tile data not found")
    ELSE Result([ G1 EXCEPT !.missiles =
                    Put(@, id, [ fromTileId |-> fromTileId,
                                 toTileId |-> toTileId,
                                 playerId |-> p,
                                 launchTime |-> time,
                                 travelTime |-> TravelTime ]) ],
                TRUE, "none", [ NoData EXCEPT !.type = "missile", !.id = id ])

(* getTilesInRadius: breadth-first over the adjacency map; the queue holds *)
(* <<tile, distance>> pairs                                                *)
RECURSIVE PushUnvisited(_, _, _, _, _)
PushUnvisited(queue, adj, i, visited, distance) ==
  IF i > Len(adj) THEN queue
  ELSE PushUnvisited(IF adj[i] \notin visited
                     THEN Append(queue, << adj[i], distance >>) ELSE queue,
                     adj, i + 1, visited, distance)

RECURSIVE RadiusSearch(_, _, _, _)
RadiusSearch(queue, visited, tilesInRadius, radius) ==
  IF Len(queue) = 0 THEN tilesInRadius
  ELSE LET tileId == queue[1][1]
           distance == queue[1][2]
       IN IF tileId \in visited
          THEN RadiusSearch(Tail(queue), visited, tilesInRadius, radius)
          ELSE IF distance <= radius
          THEN RadiusSearch(PushUnvisited(Tail(queue), adjacencyMap(tileId), 1,
                                          visited \cup {tileId}, distance + 1),
                            visited \cup {tileId},
                            tilesInRadius \cup {tileId}, radius)
          ELSE RadiusSearch(Tail(queue), visited \cup {tileId},
                            tilesInRadius, radius)

(* mutant of getTilesInRadius: the bound is taken strictly, distance <     *)
(* radius                                                                  *)
getTilesInRadiusStrict(centerTileId, radius) ==
  RadiusSearch(<< << centerTileId, 0 >> >>, {}, {}, radius - 1)

getTilesInRadius(centerTileId, radius) ==
  RadiusSearch(<< << centerTileId, 0 >> >>, {}, {}, radius)

(* Math.floor(population * 0.2) on a scaled tile population                *)
BlastSurvivors(scaledPopulation) ==
  (scaledPopulation \div (5 * PopScale)) * PopScale

ApplyBlast(tile) ==
  [ tile EXCEPT !.population = BlastSurvivors(@),
                !.structureType = NoStructure,
                !.isIrradiated = TRUE ]

(* getTilesInRadius(missile.toTileId, 2) of impactMissile: it depends on   *)
(* the world only, so it is computed once for each target tile             *)
blastRadiusTiles == [ c \in Tiles |-> getTilesInRadius(c, BlastRadius) ]

(* mutant of impactMissile: the deletion of the record is not scheduled    *)
impactMissileKeepsRecord(G, id, time) ==
  IF id \notin DOMAIN G.missiles THEN Failure(G, "Missile not found")
  ELSE IF ~HasTile(G.missiles[id].toTileId)
  THEN Failure(G, "Target tile not found")
  ELSE LET blast == blastRadiusTiles[G.missiles[id].toTileId] IN
    Result([ G EXCEPT
               !.tiles = [ t \in Tiles |->
                             IF t \in blast THEN ApplyBlast(G.tiles[t])
                             ELSE G.tiles[t] ] ],
           TRUE, "none",
           [ NoData EXCEPT !.type = "tile", !.id = G.missiles[id].toTileId ])

impactMissile(G, id, time) ==
  IF id \notin DOMAIN G.missiles THEN Failure(G, "Missile not found")
  ELSE IF ~HasTile(G.missiles[id].toTileId)
  THEN Failure(G, "Target tile not found")
  ELSE LET blast == blastRadiusTiles[G.missiles[id].toTileId] IN
    Result([ G EXCEPT
               !.tiles = [ t \in Tiles |->
                             IF t \in blast THEN ApplyBlast(G.tiles[t])
                             ELSE G.tiles[t] ],
               !.timers = @ \cup { [ kind |-> "delete", id |-> id,
                                     due |-> time + DeleteDelay ] } ],
           TRUE, "none",
           [ NoData EXCEPT !.type = "tile", !.id = G.missiles[id].toTileId ])

(* the callback of the setTimeout in impactMissile                         *)
deleteMissile(G, id) == [ G EXCEPT !.missiles = Drop(@, id) ]

createAlliance(G, p, id, isPublic) ==
  IF ~HasPlayer(G, p) THEN Failure(G, "Player not found")
  ELSE IF G.players[p].allianceId # None
  THEN Failure(G, "Player is already in an alliance")
  ELSE Result([ G EXCEPT
                  !.alliances = Put(@, id, [ leaderId |-> p,
                                             memberIds |-> << p >>,
                                             isPublic |-> isPublic ]),
                  !.players[p].allianceId = id ],
              TRUE, "none", [ NoData EXCEPT !.type = "alliance", !.id = id ])

(* mutant of joinAlliance: a private alliance takes a player as a public   *)
(* one does                                                                *)
joinAllianceUngated(G, p, id) ==
  IF ~HasPlayer(G, p) THEN Failure(G, "Player not found")
  ELSE IF id \notin DOMAIN G.alliances THEN Failure(G, "Alliance not found")
  ELSE IF G.players[p].allianceId # None
  THEN Failure(G, "Player is already in an alliance")
  ELSE Result([ G EXCEPT !.alliances[id].memberIds = Append(@, p),
                         !.players[p].allianceId = id ],
              TRUE, "none", [ NoData EXCEPT !.type = "alliance", !.id = id ])

(* mutant of joinAlliance: a player who is in an alliance may join another *)
joinAllianceAgain(G, p, id) ==
  IF ~HasPlayer(G, p) THEN Failure(G, "Player not found")
  ELSE IF id \notin DOMAIN G.alliances THEN Failure(G, "Alliance not found")
  ELSE IF ~G.alliances[id].isPublic THEN Failure(G, "Alliance is private")
  ELSE Result([ G EXCEPT !.alliances[id].memberIds = Append(@, p),
                         !.players[p].allianceId = id ],
              TRUE, "none", [ NoData EXCEPT !.type = "alliance", !.id = id ])

joinAlliance(G, p, id) ==
  IF ~HasPlayer(G, p) THEN Failure(G, "Player not found")
  ELSE IF id \notin DOMAIN G.alliances THEN Failure(G, "Alliance not found")
  ELSE IF G.players[p].allianceId # None
  THEN Failure(G, "Player is already in an alliance")
  ELSE IF ~G.alliances[id].isPublic THEN Failure(G, "Alliance is private")
  ELSE Result([ G EXCEPT !.alliances[id].memberIds = Append(@, p),
                         !.players[p].allianceId = id ],
              TRUE, "none", [ NoData EXCEPT !.type = "alliance", !.id = id ])

(* mutant of leaveAlliance: a departing leader keeps the leadership        *)
leaveAllianceKeepsLeader(G, p) ==
  IF ~HasPlayer(G, p) \/ G.players[p].allianceId = None
  THEN Failure(G, "Player not in an alliance")
  ELSE LET id == G.players[p].allianceId IN
    IF id \notin DOMAIN G.alliances THEN Failure(G, "Alliance not found")
    ELSE LET members == Without(G.alliances[id].memberIds, p)
             G1 == [ G EXCEPT !.alliances[id].memberIds = members,
                              !.players[p].allianceId = None ]
             G2 == IF G.alliances[id].leaderId = p /\ Len(members) = 0
                   THEN [ G1 EXCEPT !.alliances = Drop(@, id) ]
                   ELSE G1
         IN Result(G2, TRUE, "none",
                   [ NoData EXCEPT !.type = "alliance", !.id = id ])

leaveAlliance(G, p) ==
  IF ~HasPlayer(G, p) \/ G.players[p].allianceId = None
  THEN Failure(G, "Player not in an alliance")
  ELSE LET id == G.players[p].allianceId IN
    IF id \notin DOMAIN G.alliances THEN Failure(G, "Alliance not found")
    ELSE LET members == Without(G.alliances[id].memberIds, p)
             G1 == [ G EXCEPT !.alliances[id].memberIds = members,
                              !.players[p].allianceId = None ]
             G2 == IF G.alliances[id].leaderId = p
                   THEN IF Len(members) > 0
                        THEN [ G1 EXCEPT !.alliances[id].leaderId = members[1] ]
                        ELSE [ G1 EXCEPT !.alliances = Drop(@, id) ]
                   ELSE G1
         IN Result(G2, TRUE, "none",
                   [ NoData EXCEPT !.type = "alliance", !.id = id ])

(* mutant of kickFromAlliance: any member of the alliance may kick         *)
kickFromAllianceByAnyone(G, leaderId, memberId) ==
  IF ~HasPlayer(G, leaderId) \/ ~HasPlayer(G, memberId)
  THEN Failure(G, "Player not found")
  ELSE LET id == G.players[leaderId].allianceId IN
    IF id = None \/ id # G.players[memberId].allianceId
    THEN Failure(G, "Leader and member are not in the same alliance")
    ELSE IF id \notin DOMAIN G.alliances THEN Failure(G, "Alliance not found")
    ELSE Result([ G EXCEPT
                    !.alliances[id].memberIds = Without(@, memberId),
                    !.players[memberId].allianceId = None ],
                TRUE, "none", [ NoData EXCEPT !.type = "alliance", !.id = id ])

kickFromAlliance(G, leaderId, memberId) ==
  IF ~HasPlayer(G, leaderId) \/ ~HasPlayer(G, memberId)
  THEN Failure(G, "Player not found")
  ELSE LET id == G.players[leaderId].allianceId IN
    IF id = None \/ id # G.players[memberId].allianceId
    THEN Failure(G, "Leader and member are not in the same alliance")
    ELSE IF id \notin DOMAIN G.alliances THEN Failure(G, "Alliance not found")
    ELSE IF G.alliances[id].leaderId # leaderId
    THEN Failure(G, "Only the alliance leader can kick members")
    ELSE Result([ G EXCEPT
                    !.alliances[id].memberIds = Without(@, memberId),
                    !.players[memberId].allianceId = None ],
                TRUE, "none", [ NoData EXCEPT !.type = "alliance", !.id = id ])

(* mutant of PlayerEconomy: the gold comes from the share of the           *)
(* population that does not work                                           *)
PlayerEconomyOfSoldiers(pl, time, deltaTime) ==
  LET k == (time - pl.lastPopulationGrowth) \div GrowthPeriod
      population == pl.population + k * GrowthAmount
      goldGrowth == population * (RatioOne - pl.workerRatio) * (deltaTime \div 100)
  IN [ pl EXCEPT !.population = population,
                 !.lastPopulationGrowth = @ + k * GrowthPeriod,
                 !.gold = @ + goldGrowth ]

(* update(), the economy of one player: population growth, gold from the   *)
(* workers, and the even spread of the population over the owned tiles     *)
PlayerEconomy(pl, time, deltaTime) ==
  LET k == (time - pl.lastPopulationGrowth) \div GrowthPeriod
      population == pl.population + k * GrowthAmount
      (* workers * 0.1 * (deltaTime / 1000), in thousandths of gold *)
      goldGrowth == population * pl.workerRatio * (deltaTime \div 100)
  IN [ pl EXCEPT !.population = population,
                 !.lastPopulationGrowth = @ + k * GrowthPeriod,
                 !.gold = @ + goldGrowth ]

(* mutant of PopulationPerTile: every tile is given the whole population   *)
PopulationPerTileWhole(population, n) == population * PopScale

PopulationPerTile(population, n) == (population * PopScale) \div n

RECURSIVE RemovePlayers(_, _)
RemovePlayers(G, S) ==
  IF S = {} THEN G
  ELSE LET p == CHOOSE x \in S : TRUE
       IN RemovePlayers(removePlayer(G, p), S \ {p})

(* mutant of update: the inactive players are not removed                  *)
updateKeepsInactive(G, time, lastTime) ==
  LET deltaTime == time - lastTime
      grown == [ p \in DOMAIN G.players |->
                   PlayerEconomy(G.players[p], time, deltaTime) ]
      spread == [ t \in Tiles |->
                    LET o == G.tiles[t].ownerId IN
                    IF o \in DOMAIN G.players
                    THEN [ G.tiles[t] EXCEPT !.population =
                             PopulationPerTile(grown[o].population,
                                               Cardinality(OwnedTiles(G, o))) ]
                    ELSE G.tiles[t] ]
  IN [ G EXCEPT !.players = grown, !.tiles = spread ]

update(G, time, lastTime) ==
  LET deltaTime == time - lastTime
      grown == [ p \in DOMAIN G.players |->
                   PlayerEconomy(G.players[p], time, deltaTime) ]
      spread == [ t \in Tiles |->
                    LET o == G.tiles[t].ownerId IN
                    IF o \in DOMAIN G.players
                    THEN [ G.tiles[t] EXCEPT !.population =
                             PopulationPerTile(grown[o].population,
                                               Cardinality(OwnedTiles(G, o))) ]
                    ELSE G.tiles[t] ]
      G1 == [ G EXCEPT !.players = grown, !.tiles = spread ]
      inactive == { p \in DOMAIN grown :
                      time - grown[p].lastActive > InactivityThreshold }
  IN RemovePlayers(G1, inactive)

(***************************************************************************)
(* The Synchronization Server.                                             *)
(***************************************************************************)
(* an event: its type, the connections it is sent to, the id it names and, *)
(* for a game_state snapshot, the registries that it carries               *)
Event(type, to, id) == [ type |-> type, to |-> to, id |-> id, data |-> {} ]

(* the snapshot that the handlers and the game loop broadcast, and the one *)
(* that handleConnection sends                                             *)
SnapshotFields == { "players", "tiles", "missiles", "gameTime" }
ConnectFields == { "players", "tiles", "gameTime" }

(* broadcast(message, exclude): to every registered connection but one     *)
Broadcast(type, id, exclude) ==
  Event(type, DOMAIN connections \ {exclude}, id)
BroadcastAll(type, id) == Event(type, DOMAIN connections, id)
SendToClient(c, type, id) == Event(type, {c}, id)
SendError(c) == SendToClient(c, "error", None)

Ran(op, c, r) == [ op |-> op, conn |-> c, success |-> r.success,
                   error |-> r.error, type |-> r.data.type ]
RanPlain(op, c, ok) == [ op |-> op, conn |-> c, success |-> ok,
                         error |-> "none", type |-> "none" ]
NotSpawned(op, c) == [ op |-> op, conn |-> c, success |-> FALSE,
                       error |-> "Player not spawned", type |-> "none" ]

BoundPlayer(c) == connections[c].playerId

TileInputs == 0 .. NumTiles
RatioInputs == { 5, RatioOne, RatioOne + 1 }
StructureInputs == { "city", "port", "missile_silo" }

Adopt(r) ==
  /\ players' = r.players
  /\ tiles' = r.tiles
  /\ missiles' = r.missiles
  /\ alliances' = r.alliances
  /\ timers' = r.timers

EngineUnchanged == UNCHANGED << players, tiles, missiles, alliances, timers >>

ClientEvent ==
  /\ events < MaxEvents
  /\ events' = events + 1
  /\ UNCHANGED globe

Init ==
  /\ players = << >>
  /\ tiles = [ t \in Tiles |-> [ ownerId |-> None, population |-> 0,
                                 structureType |-> NoStructure,
                                 isIrradiated |-> FALSE ] ]
  /\ missiles = << >>
  /\ alliances = << >>
  /\ connections = << >>
  /\ timers = {}
  /\ now = 0
  /\ lastUpdate = 0
  /\ nextId = [ player |-> 1, missile |-> 1, alliance |-> 1 ]
  /\ events = 0
  /\ last = RanPlain("init", None, TRUE)
  /\ out = << >>
  /\ mlog = << >>
  /\ globe = Built

(* sockets are numbered in the order they connect: a new connection takes  *)
(* the lowest free number                                                  *)
HandleConnection(c) ==
  /\ ClientEvent
  /\ c \notin DOMAIN connections
  /\ \A b \in Conns : b < c => b \in DOMAIN connections
  /\ connections' = Put(connections, c, [ playerId |-> None, lastPing |-> now ])
  /\ out' = << [ SendToClient(c, "game_state", None)
                   EXCEPT !.data = ConnectFields ] >>
  /\ last' = RanPlain("connect", c, TRUE)
  /\ EngineUnchanged
  /\ UNCHANGED << now, lastUpdate, nextId, mlog >>

HandleDisconnection(c) ==
  /\ ClientEvent
  /\ c \in DOMAIN connections
  /\ LET p == BoundPlayer(c) IN
       IF p # None
       THEN /\ Adopt(removePlayer(Engine, p))
            /\ out' = << Broadcast("player_left", p, c) >>
       ELSE /\ EngineUnchanged
            /\ out' = << >>
  /\ connections' = Drop(connections, c)
  /\ last' = RanPlain("disconnect", c, TRUE)
  /\ UNCHANGED << now, lastUpdate, nextId, mlog >>

(* mutant of HandleSpawnPlayer: the check of connection.playerId is left   *)
(* out, so that a second spawn_player creates and binds a second player    *)
HandleSpawnPlayerAgain(c) ==
  /\ ClientEvent
  /\ c \in DOMAIN connections
  /\ LET id == nextId.player IN
       /\ Adopt(spawnPlayer(Engine, id, now))
       /\ connections' = [ connections EXCEPT ![c].playerId = id ]
       /\ nextId' = [ nextId EXCEPT !.player = @ + 1 ]
       /\ out' = << SendToClient(c, "player_spawned", id),
                    Broadcast("player_joined", id, c) >>
       /\ last' = RanPlain("spawn_player", c, TRUE)
  /\ UNCHANGED << now, lastUpdate, mlog >>

HandleSpawnPlayer(c) ==
  /\ ClientEvent
  /\ c \in DOMAIN connections
  /\ IF BoundPlayer(c) # None
     THEN /\ out' = << SendError(c) >>
          /\ last' = [ RanPlain("spawn_player", c, FALSE)
                         EXCEPT !.error = "Player already spawned" ]
          /\ EngineUnchanged
          /\ UNCHANGED << connections, nextId >>
     ELSE LET id == nextId.player IN
          /\ Adopt(spawnPlayer(Engine, id, now))
          /\ connections' = [ connections EXCEPT ![c].playerId = id ]
          /\ nextId' = [ nextId EXCEPT !.player = @ + 1 ]
          /\ out' = << SendToClient(c, "player_spawned", id),
                       Broadcast("player_joined", id, c) >>
          /\ last' = RanPlain("spawn_player", c, TRUE)
  /\ UNCHANGED << now, lastUpdate, mlog >>

(* mutant of Refuse: the error goes to every connection                    *)
RefuseToAll(op, c) ==
  /\ out' = << BroadcastAll("error", None) >>
  /\ last' = NotSpawned(op, c)
  /\ EngineUnchanged
  /\ UNCHANGED << nextId, mlog >>

(* a handler that refuses a connection with no bound player                *)
Refuse(op, c) ==
  /\ out' = << SendError(c) >>
  /\ last' = NotSpawned(op, c)
  /\ EngineUnchanged
  /\ UNCHANGED << nextId, mlog >>

Snapshot ==
  [ BroadcastAll("game_state", None) EXCEPT !.data = SnapshotFields ]

RECURSIVE TerritoryEvents(_, _, _)
TerritoryEvents(claimed, i, p) ==
  IF i > Len(claimed) THEN << >>
  ELSE << BroadcastAll("territory_expanded", claimed[i]) >>
       \o TerritoryEvents(claimed, i + 1, p)

HandleSelectTile(c, t) ==
  /\ ClientEvent
  /\ c \in DOMAIN connections
  /\ IF BoundPlayer(c) = None THEN Refuse("select_tile", c)
     ELSE LET r == selectTile(Engine, BoundPlayer(c), t, now) IN
          /\ Adopt(r)
          /\ last' = Ran("select_tile", c, r)
          /\ out' = IF ~r.success THEN << SendError(c) >>
                    ELSE IF r.data.type = "building_options"
                    THEN << SendToClient(c, "building_options", t) >>
                    ELSE TerritoryEvents(r.data.claimedTiles, 1, BoundPlayer(c))
                         \o << BroadcastAll("player_updated", BoundPlayer(c)),
                               Snapshot >>
          /\ UNCHANGED << nextId, mlog >>
  /\ UNCHANGED << connections, now, lastUpdate >>

HandleAdjustWorkerRatio(c, ratio) ==
  /\ ClientEvent
  /\ c \in DOMAIN connections
  /\ IF BoundPlayer(c) = None THEN Refuse("adjust_worker_ratio", c)
     ELSE LET r == adjustWorkerRatio(Engine, BoundPlayer(c), ratio, now) IN
          /\ Adopt(r)
          /\ last' = Ran("adjust_worker_ratio", c, r)
          /\ out' = IF r.success
                    THEN << BroadcastAll("player_updated", BoundPlayer(c)) >>
                    ELSE << SendError(c) >>
          /\ UNCHANGED << nextId, mlog >>
  /\ UNCHANGED << connections, now, lastUpdate >>

HandleAdjustTroopDeployment(c, deployment) ==
  /\ ClientEvent
  /\ c \in DOMAIN connections
  /\ IF BoundPlayer(c) = None THEN Refuse("adjust_troop_deployment", c)
     ELSE LET r == adjustTroopDeployment(Engine, BoundPlayer(c), deployment, now) IN
          /\ Adopt(r)
          /\ last' = Ran("adjust_troop_deployment", c, r)
          /\ out' = IF r.success
                    THEN << BroadcastAll("player_updated", BoundPlayer(c)) >>
                    ELSE << SendError(c) >>
          /\ UNCHANGED << nextId, mlog >>
  /\ UNCHANGED << connections, now, lastUpdate >>

HandleBuildStructure(c, t, structureType) ==
  /\ ClientEvent
  /\ c \in DOMAIN connections
  /\ IF BoundPlayer(c) = None THEN Refuse("build_structure", c)
     ELSE LET r == buildStructure(Engine, BoundPlayer(c), t, structureType, now) IN
          /\ Adopt(r)
          /\ last' = Ran("build_structure", c, r)
          /\ out' = IF r.success
                    THEN << BroadcastAll("structure_built", t),
                            BroadcastAll("player_updated", BoundPlayer(c)),
                            Snapshot >>
                    ELSE << SendError(c) >>
          /\ UNCHANGED << nextId, mlog >>
  /\ UNCHANGED << connections, now, lastUpdate >>

(* handleLaunchMissile: the Engine call, the broadcasts, then the          *)
(* setTimeout of the impact at travelTime                                  *)
HandleLaunchMissile(c, fromTileId, toTileId) ==
  /\ ClientEvent
  /\ c \in DOMAIN connections
  /\ nextId.missile <= MaxMissiles
  /\ IF BoundPlayer(c) = None THEN Refuse("launch_missile", c)
     ELSE LET id == nextId.missile
              r == launchMissile(Engine, BoundPlayer(c), fromTileId, toTileId,
                                 id, now)
          IN
          /\ last' = Ran("launch_missile", c, r)
          /\ IF r.success
             THEN /\ Adopt([ r EXCEPT !.timers = @ \cup
                               { [ kind |-> "impact", id |-> id,
                                   due |-> now + r.missiles[id].travelTime ] } ])
                  /\ out' = << BroadcastAll("missile_launched", id),
                               BroadcastAll("player_updated", BoundPlayer(c)),
                               Snapshot >>
                  /\ nextId' = [ nextId EXCEPT !.missile = @ + 1 ]
                  /\ mlog' = Put(mlog, id, [ launched |-> now,
                                             announced |->
                                               \E i \in 1 .. Len(out') :
                                                 /\ out'[i].type = "missile_launched"
                                                 /\ out'[i].id = id,
                                             impacts |-> 0,
                                             impactAt |-> None,
                                             deleted |-> FALSE ])
             ELSE /\ Adopt(r)
                  /\ out' = << SendError(c) >>
                  /\ UNCHANGED << nextId, mlog >>
  /\ UNCHANGED << connections, now, lastUpdate >>

(* handleExpandTerritory hands the message to handleSelectTile             *)
HandleExpandTerritory(c, t) ==
  /\ ClientEvent
  /\ c \in DOMAIN connections
  /\ IF BoundPlayer(c) = None THEN Refuse("expand_territory", c)
     ELSE LET r == selectTile(Engine, BoundPlayer(c), t, now) IN
          /\ Adopt(r)
          /\ last' = Ran("expand_territory", c, r)
          /\ out' = IF ~r.success THEN << SendError(c) >>
                    ELSE IF r.data.type = "building_options"
                    THEN << SendToClient(c, "building_options", t) >>
                    ELSE TerritoryEvents(r.data.claimedTiles, 1, BoundPlayer(c))
                         \o << BroadcastAll("player_updated", BoundPlayer(c)),
                               Snapshot >>
          /\ UNCHANGED << nextId, mlog >>
  /\ UNCHANGED << connections, now, lastUpdate >>

(* the catch of the "message" listener: whatever JSON.parse or the handler *)
(* throws ends in sendError(ws, "Invalid message format")                  *)
InvalidMessage(op, c) ==
  /\ out' = << SendError(c) >>
  /\ last' = [ RanPlain(op, c, FALSE) EXCEPT !.error = "Invalid message format" ]
  /\ EngineUnchanged
  /\ UNCHANGED << nextId, mlog >>

(* handleStartConquest and handleCancelConquest: after the check of the    *)
(* bound player they call gameState.startConquest and cancelConquest,      *)
(* which GameState does not have; the call throws a TypeError, which the   *)
(* listener catches                                                        *)
HandleStartConquest(c) ==
  /\ ClientEvent
  /\ c \in DOMAIN connections
  /\ IF BoundPlayer(c) = None THEN Refuse("start_conquest", c)
     ELSE InvalidMessage("start_conquest", c)
  /\ UNCHANGED << connections, now, lastUpdate >>

HandleCancelConquest(c) ==
  /\ ClientEvent
  /\ c \in DOMAIN connections
  /\ IF BoundPlayer(c) = None THEN Refuse("cancel_conquest", c)
     ELSE InvalidMessage("cancel_conquest", c)
  /\ UNCHANGED << connections, now, lastUpdate >>

(* the four alliance handlers: the Engine call, then the answer to the     *)
(* sender and alliance_updated to everyone, or the error to the sender     *)
AllianceEvents(c, type, r) ==
  IF r.success
  THEN << SendToClient(c, type, r.data.id),
          BroadcastAll("alliance_updated", r.data.id) >>
  ELSE << SendError(c) >>

HandleCreateAlliance(c, isPublic) ==
  /\ ClientEvent
  /\ c \in DOMAIN connections
  /\ IF BoundPlayer(c) = None
     THEN Refuse("create_alliance", c)
     ELSE LET r == createAlliance(Engine, BoundPlayer(c), nextId.alliance,
                                  isPublic) IN
          /\ Adopt(r)
          /\ last' = Ran("create_alliance", c, r)
          /\ out' = AllianceEvents(c, "alliance_created", r)
          /\ nextId' = IF r.success THEN [ nextId EXCEPT !.alliance = @ + 1 ]
                       ELSE nextId
          /\ UNCHANGED mlog
  /\ UNCHANGED << connections, now, lastUpdate >>

HandleJoinAlliance(c, allianceId) ==
  /\ ClientEvent
  /\ c \in DOMAIN connections
  /\ IF BoundPlayer(c) = None THEN Refuse("join_alliance", c)
     ELSE LET r == joinAlliance(Engine, BoundPlayer(c), allianceId) IN
          /\ Adopt(r)
          /\ last' = Ran("join_alliance", c, r)
          /\ out' = AllianceEvents(c, "alliance_joined", r)
          /\ UNCHANGED << nextId, mlog >>
  /\ UNCHANGED << connections, now, lastUpdate >>

HandleLeaveAlliance(c) ==
  /\ ClientEvent
  /\ c \in DOMAIN connections
  /\ IF BoundPlayer(c) = None THEN Refuse("leave_alliance", c)
     ELSE LET r == leaveAlliance(Engine, BoundPlayer(c)) IN
          /\ Adopt(r)
          /\ last' = Ran("leave_alliance", c, r)
          /\ out' = AllianceEvents(c, "alliance_left", r)
          /\ UNCHANGED << nextId, mlog >>
  /\ UNCHANGED << connections, now, lastUpdate >>

HandleKickFromAlliance(c, memberId) ==
  /\ ClientEvent
  /\ c \in DOMAIN connections
  /\ IF BoundPlayer(c) = None THEN Refuse("kick_from_alliance", c)
     ELSE LET r == kickFromAlliance(Engine, BoundPlayer(c), memberId) IN
          /\ Adopt(r)
          /\ last' = Ran("kick_from_alliance", c, r)
          /\ out' = AllianceEvents(c, "alliance_member_kicked", r)
          /\ UNCHANGED << nextId, mlog >>
  /\ UNCHANGED << connections, now, lastUpdate >>

(* mutant of HandleUndecodable: the server answers and drops the           *)
(* connection                                                              *)
HandleUndecodableDrops(c) ==
  /\ ClientEvent
  /\ c \in DOMAIN connections
  /\ InvalidMessage("undecodable", c)
  /\ connections' = Drop(connections, c)
  /\ UNCHANGED << now, lastUpdate >>

(* a message that JSON.parse rejects: the listener's catch answers         *)
HandleUndecodable(c) ==
  /\ ClientEvent
  /\ c \in DOMAIN connections
  /\ InvalidMessage("undecodable", c)
  /\ UNCHANGED << connections, now, lastUpdate >>

(* a message whose type is none of handleMessage's cases: the default      *)
(* branch answers                                                          *)
HandleUnknownType(c) ==
  /\ ClientEvent
  /\ c \in DOMAIN connections
  /\ out' = << SendError(c) >>
  /\ last' = [ RanPlain("unknown", c, FALSE)
                 EXCEPT !.error = "Unknown message type" ]
  /\ EngineUnchanged
  /\ UNCHANGED << connections, now, lastUpdate, nextId, mlog >>

(* mutant of ImpactTimer: the callback stays scheduled after it has run,   *)
(* as with setInterval                                                     *)
ImpactTimerRepeats(tm) ==
  /\ tm \in timers
  /\ tm.kind = "impact"
  /\ tm.due <= now
  /\ LET r == impactMissile(Engine, tm.id, now) IN
       /\ Adopt(r)
       /\ last' = Ran("impact", None, r)
       /\ out' = IF r.success THEN << BroadcastAll("missile_impact", tm.id) >>
                 ELSE << >>
       /\ mlog' = IF r.success
                  THEN [ mlog EXCEPT ![tm.id].impacts = @ + 1,
                                     ![tm.id].impactAt = now ]
                  ELSE mlog
  /\ UNCHANGED << connections, now, lastUpdate, nextId, events, globe >>

(* the setTimeout callback that handleLaunchMissile scheduled              *)
ImpactTimer(tm) ==
  /\ tm \in timers
  /\ tm.kind = "impact"
  /\ tm.due <= now
  /\ LET r == impactMissile([ Engine EXCEPT !.timers = @ \ {tm} ], tm.id, now) IN
       /\ Adopt(r)
       /\ last' = Ran("impact", None, r)
       /\ out' = IF r.success THEN << BroadcastAll("missile_impact", tm.id) >>
                 ELSE << >>
       /\ mlog' = IF r.success
                  THEN [ mlog EXCEPT ![tm.id].impacts = @ + 1,
                                     ![tm.id].impactAt = now ]
                  ELSE mlog
  /\ UNCHANGED << connections, now, lastUpdate, nextId, events, globe >>

(* the setTimeout callback that impactMissile scheduled                    *)
DeleteTimer(tm) ==
  /\ tm \in timers
  /\ tm.kind = "delete"
  /\ tm.due <= now
  /\ Adopt(deleteMissile([ Engine EXCEPT !.timers = @ \ {tm} ], tm.id))
  /\ last' = RanPlain("delete", None, TRUE)
  /\ out' = << >>
  /\ mlog' = [ mlog EXCEPT ![tm.id].deleted = TRUE ]
  /\ UNCHANGED << connections, now, lastUpdate, nextId, events, globe >>

(* GameServer.update: the Engine's tick, then the periodic snapshot.       *)
(* gameStartTime is 0, so getGameTime() is now.  GameState keeps no        *)
(* conquest events, so the loop over getConquestEvents() sends nothing.    *)
Update ==
  /\ Adopt(update(Engine, now, lastUpdate))
  /\ lastUpdate' = now
  /\ last' = RanPlain("update", None, TRUE)
  /\ out' = IF now % SnapshotModulus = 0 THEN << Snapshot >> ELSE << >>
  /\ UNCHANGED << connections, now, nextId, events, globe, mlog >>

(* the earliest instant at which a pending setTimeout callback is due      *)
NextDue == CHOOSE d \in { tm.due : tm \in timers } :
             \A tm \in timers : d <= tm.due

(* time passes, up to the next instant at which something is scheduled:    *)
(* the earliest pending timer, or one step of the clock when none is       *)
(* pending; the tick has run at this instant and no timer is overdue       *)
Advance ==
  /\ now < MaxTime \/ timers # {}
  /\ lastUpdate = now
  /\ \A tm \in timers : tm.due > now
  /\ now' = IF timers = {} THEN now + TimeStep ELSE NextDue
  /\ last' = RanPlain("advance", None, TRUE)
  /\ out' = << >>
  /\ EngineUnchanged
  /\ UNCHANGED << connections, lastUpdate, nextId, events, globe, mlog >>

(* half an hour passes with nothing scheduled and no tick run              *)
Lapse ==
  /\ now < InactivityThreshold
  /\ timers = {}
  /\ lastUpdate = now
  /\ now' = now + InactivityThreshold
  /\ last' = RanPlain("lapse", None, TRUE)
  /\ out' = << >>
  /\ EngineUnchanged
  /\ UNCHANGED << connections, lastUpdate, nextId, events, globe, mlog >>

(* the "pong" listener of handleConnection                                 *)
HandlePong(c) ==
  /\ ClientEvent
  /\ c \in DOMAIN connections
  /\ connections' = [ connections EXCEPT ![c].lastPing = now ]
  /\ last' = RanPlain("pong", c, TRUE)
  /\ out' = << >>
  /\ EngineUnchanged
  /\ UNCHANGED << now, lastUpdate, nextId, mlog >>

(* the orders in which connections.forEach can meet the connections of S   *)
Orders(S) ==
  { o \in [ 1 .. Cardinality(S) -> S ] :
      \A i, j \in 1 .. Cardinality(S) : o[i] = o[j] => i = j }

(* mutant of Terminate: the player goes and the connection stays in the    *)
(* registry                                                                *)
RECURSIVE TerminateKeepsConnection(_, _, _, _, _)
TerminateKeepsConnection(G, cs, order, i, evs) ==
  IF i > Len(order) THEN [ G |-> G, connections |-> cs, out |-> evs ]
  ELSE LET c == order[i]
           p == cs[c].playerId
       IN IF p # None
          THEN TerminateKeepsConnection(
                 removePlayer(G, p), cs, order, i + 1,
                 Append(evs, Event("player_left", DOMAIN cs \ {c}, p)))
          ELSE TerminateKeepsConnection(G, cs, order, i + 1, evs)

(* pingClients on the stale connections, in the order of the Map:          *)
(* terminate, then handleDisconnection                                     *)
RECURSIVE Terminate(_, _, _, _, _)
Terminate(G, cs, order, i, evs) ==
  IF i > Len(order) THEN [ G |-> G, connections |-> cs, out |-> evs ]
  ELSE LET c == order[i]
           p == cs[c].playerId
       IN IF p # None
          THEN Terminate(removePlayer(G, p), Drop(cs, c), order, i + 1,
                         Append(evs, Event("player_left", DOMAIN cs \ {c}, p)))
          ELSE Terminate(G, Drop(cs, c), order, i + 1, evs)

Stale(c) == now - connections[c].lastPing > StaleAfter

(* the next run of the ping interval, while the model's rounds last        *)
NextPing(tm) ==
  IF tm.due + PingPeriod <= MaxRounds * PingPeriod
  THEN { [ tm EXCEPT !.due = @ + PingPeriod ] }
  ELSE {}

(* mutant of PingClients: every connection is pinged, none is terminated   *)
PingClientsOnly(tm) ==
  /\ tm \in timers
  /\ tm.kind = "ping"
  /\ tm.due <= now
  /\ timers' = (timers \ {tm}) \cup NextPing(tm)
  /\ last' = RanPlain("ping", None, TRUE)
  /\ out' = << >>
  /\ UNCHANGED << players, tiles, missiles, alliances, connections >>
  /\ UNCHANGED << now, lastUpdate, nextId, events, globe, mlog >>

(* the callback of the ping interval: pingClients                          *)
PingClients(tm) ==
  /\ tm \in timers
  /\ tm.kind = "ping"
  /\ tm.due <= now
  /\ \E order \in Orders({ c \in DOMAIN connections : Stale(c) }) :
       LET r == Terminate([ Engine EXCEPT !.timers = (@ \ {tm}) \cup NextPing(tm) ],
                          connections, order, 1, << >>)
       IN /\ Adopt(r.G)
          /\ connections' = r.connections
          /\ out' = r.out
  /\ last' = RanPlain("ping", None, TRUE)
  /\ UNCHANGED << now, lastUpdate, nextId, events, globe, mlog >>

ConnectionEvents ==
  \E c \in Conns :
    \/ HandleConnection(c)
    \/ HandleSpawnPlayer(c)
    \/ HandleDisconnection(c)

TerritoryEventsIn ==
  \E c \in Conns :
    \/ \E t \in Tiles : HandleSelectTile(c, t)
    \/ \E ratio \in RatioInputs : HandleAdjustWorkerRatio(c, ratio)

MissileEvents ==
  \/ \E c \in Conns, t \in Tiles, s \in StructureInputs :
       HandleBuildStructure(c, t, s)
  \/ \E c \in Conns, f \in Tiles, t \in Tiles :
       HandleLaunchMissile(c, f, t)
  \/ \E tm \in timers : ImpactTimer(tm)
  \/ \E tm \in timers : DeleteTimer(tm)

Clock ==
  \/ Update
  \/ Advance

Next ==
  \/ ConnectionEvents
  \/ TerritoryEventsIn
  \/ \E c \in Conns, deployment \in RatioInputs :
       HandleAdjustTroopDeployment(c, deployment)
  \/ MissileEvents
  \/ Clock

Spec == Init /\ [][Next]_vars

NextTerritory ==
  \/ \E c \in Conns : HandleConnection(c)
  \/ \E c \in Conns : HandleSpawnPlayer(c)
  \/ TerritoryEventsIn
  \/ Update

SpecTerritory == Init /\ [][NextTerritory]_vars

(* the missile's life, with the clients of the connections of C: players   *)
(* settle, gold comes in with the ticks, a silo is built, missiles are     *)
(* launched, and the two timers fire                                       *)
SettleInputs == { 4, NumTiles - 1 }
SiloInputs == { 0 }
LaunchFrom == { 0 }
LaunchTo == { 0, NumTiles - 1 }

MissileNext(C) ==
  \/ \E c \in C : HandleConnection(c)
  \/ \E c \in C : HandleSpawnPlayer(c)
  \/ \E c \in C : HandleDisconnection(c)
  \/ \E c \in C, t \in SettleInputs : HandleSelectTile(c, t)
  \/ \E c \in C, t \in SiloInputs : HandleBuildStructure(c, t, "missile_silo")
  \/ \E c \in C, f \in LaunchFrom, t \in LaunchTo :
       HandleLaunchMissile(c, f, t)
  \/ \E tm \in timers : ImpactTimer(tm)
  \/ \E tm \in timers : DeleteTimer(tm)
  \/ Update
  \/ Advance

NextMissile == MissileNext(Conns)

SpecMissile == Init /\ [][NextMissile]_vars

(* one client, and a server that keeps running: the tick of setInterval    *)
(* and the callbacks of setTimeout are run by the event loop when due      *)
NextMissileLive == MissileNext({ 1 })

SpecMissileLive ==
  /\ Init
  /\ [][NextMissileLive]_vars
  /\ WF_vars(Update)
  /\ WF_vars(Advance)
  /\ WF_vars(\E tm \in timers : ImpactTimer(tm))
  /\ WF_vars(\E tm \in timers : DeleteTimer(tm))

(* the life of a connection: it opens, sends messages of every type that   *)
(* handleMessage knows and of none, bound to a player or not, and closes   *)
JoinInputs == 1 .. 2
KickInputs == 1 .. 3

(* the cases of handleMessage other than spawn_player                      *)
KnownTypes ==
  { "select_tile", "expand_territory", "build_structure",
    "adjust_worker_ratio", "adjust_troop_deployment", "start_conquest",
    "cancel_conquest", "launch_missile", "create_alliance", "join_alliance",
    "leave_alliance", "kick_from_alliance" }

NextSession ==
  \/ \E c \in Conns : HandleConnection(c)
  \/ \E c \in Conns : HandleSpawnPlayer(c)
  \/ \E c \in Conns : HandleDisconnection(c)
  \/ \E c \in Conns, t \in SettleInputs : HandleSelectTile(c, t)
  \/ \E c \in Conns, t \in SettleInputs : HandleExpandTerritory(c, t)
  \/ \E c \in Conns, t \in SiloInputs : HandleBuildStructure(c, t, "missile_silo")
  \/ \E c \in Conns : HandleAdjustWorkerRatio(c, 5)
  \/ \E c \in Conns : HandleAdjustTroopDeployment(c, 5)
  \/ \E c \in Conns : HandleStartConquest(c)
  \/ \E c \in Conns : HandleCancelConquest(c)
  \/ \E c \in Conns, f \in LaunchFrom, t \in LaunchTo :
       HandleLaunchMissile(c, f, t)
  \/ \E c \in Conns : HandleCreateAlliance(c, TRUE)
  \/ \E c \in Conns, a \in JoinInputs : HandleJoinAlliance(c, a)
  \/ \E c \in Conns : HandleLeaveAlliance(c)
  \/ \E c \in Conns, m \in KickInputs : HandleKickFromAlliance(c, m)
  \/ \E c \in Conns : HandleUndecodable(c)
  \/ \E c \in Conns : HandleUnknownType(c)

SpecSession == Init /\ [][NextSession]_vars

(* the alliances: players come and go and found, join, leave and kick      *)
NextAlliance ==
  \/ \E c \in Conns : HandleConnection(c)
  \/ \E c \in Conns : HandleSpawnPlayer(c)
  \/ \E c \in Conns : HandleDisconnection(c)
  \/ \E c \in Conns, isPublic \in BOOLEAN : HandleCreateAlliance(c, isPublic)
  \/ \E c \in Conns, a \in JoinInputs : HandleJoinAlliance(c, a)
  \/ \E c \in Conns : HandleLeaveAlliance(c)
  \/ \E c \in Conns, m \in KickInputs : HandleKickFromAlliance(c, m)

(* the Engine once the players 1 .. n have spawned at time 0                *)
RECURSIVE Lobby(_)
Lobby(n) ==
  IF n = 0
  THEN [ players |-> << >>,
         tiles |-> [ t \in Tiles |-> [ ownerId |-> None, population |-> 0,
                                       structureType |-> NoStructure,
                                       isIrradiated |-> FALSE ] ],
         missiles |-> << >>, alliances |-> << >>, timers |-> {} ]
  ELSE spawnPlayer(Lobby(n - 1), n, 0)

(* the server once every connection has opened and spawned its player, in  *)
(* the order of the connections                                            *)
InitAlliance ==
  /\ players = Lobby(MaxConns).players
  /\ tiles = Lobby(MaxConns).tiles
  /\ missiles = << >>
  /\ alliances = << >>
  /\ connections = [ c \in Conns |-> [ playerId |-> c, lastPing |-> 0 ] ]
  /\ timers = {}
  /\ now = 0
  /\ lastUpdate = 0
  /\ nextId = [ player |-> MaxConns + 1, missile |-> 1, alliance |-> 1 ]
  /\ events = 0
  /\ last = RanPlain("spawn_player", MaxConns, TRUE)
  /\ out = << SendToClient(MaxConns, "player_spawned", MaxConns),
              Broadcast("player_joined", MaxConns, MaxConns) >>
  /\ mlog = << >>
  /\ globe = Built

SpecAlliance == InitAlliance /\ [][NextAlliance]_vars

(* building: players settle around tile 0 and expand towards the water,    *)
(* gold comes in with the tick, and structures of every type are asked for *)
BuildSettle == { 0, 3 }
BuildInputs == { 0, 3, 4 }

NextBuild ==
  \/ \E c \in Conns : HandleConnection(c)
  \/ \E c \in Conns : HandleSpawnPlayer(c)
  \/ \E c \in Conns, t \in BuildSettle : HandleSelectTile(c, t)
  \/ \E c \in Conns, t \in BuildInputs, st \in StructureInputs :
       HandleBuildStructure(c, t, st)
  \/ Update
  \/ Advance

SpecBuild == Init /\ [][NextBuild]_vars

(* the economy: players settle and attack, set their worker ratio and      *)
(* troop deployment to values in and out of range, and the tick runs as    *)
(* time passes                                                             *)
EconomyRatios == { -1, 0, 5, RatioOne, RatioOne + 1 }

NextEconomy ==
  \/ \E c \in Conns : HandleConnection(c)
  \/ \E c \in Conns : HandleSpawnPlayer(c)
  \/ \E c \in Conns, t \in SettleInputs : HandleSelectTile(c, t)
  \/ \E c \in Conns, ratio \in EconomyRatios : HandleAdjustWorkerRatio(c, ratio)
  \/ \E c \in Conns, deployment \in EconomyRatios :
       HandleAdjustTroopDeployment(c, deployment)
  \/ Update
  \/ Advance

SpecEconomy == Init /\ [][NextEconomy]_vars

(* inactivity: players settle and act, some of them at a later time than   *)
(* others, and then nothing happens for half an hour                       *)
NextInactivity ==
  \/ \E c \in Conns : HandleConnection(c)
  \/ \E c \in Conns : HandleSpawnPlayer(c)
  \/ \E c \in Conns : HandleDisconnection(c)
  \/ \E c \in Conns, t \in SettleInputs : HandleSelectTile(c, t)
  \/ \E c \in Conns : HandleAdjustWorkerRatio(c, 5)
  \/ Update
  \/ Advance
  \/ Lapse

SpecInactivity == Init /\ [][NextInactivity]_vars

(* the heartbeat: the constructor has started the ping interval; clients   *)
(* connect, spawn, settle, answer with pongs or not, and close             *)
InitHeartbeat ==
  /\ players = << >>
  /\ tiles = [ t \in Tiles |-> [ ownerId |-> None, population |-> 0,
                                 structureType |-> NoStructure,
                                 isIrradiated |-> FALSE ] ]
  /\ missiles = << >>
  /\ alliances = << >>
  /\ connections = << >>
  /\ timers = { [ kind |-> "ping", id |-> None, due |-> PingPeriod ] }
  /\ now = 0
  /\ lastUpdate = 0
  /\ nextId = [ player |-> 1, missile |-> 1, alliance |-> 1 ]
  /\ events = 0
  /\ last = RanPlain("init", None, TRUE)
  /\ out = << >>
  /\ mlog = << >>
  /\ globe = Built

HeartbeatNext(C) ==
  \/ \E c \in C : HandleConnection(c)
  \/ \E c \in C : HandleSpawnPlayer(c)
  \/ \E c \in C : HandleDisconnection(c)
  \/ \E c \in C : HandleSelectTile(c, 4)
  \/ \E c \in C : HandlePong(c)
  \/ \E tm \in timers : PingClients(tm)
  \/ Update
  \/ Advance

NextHeartbeat == HeartbeatNext({ 1 })

(* the server keeps running: the tick and the ping interval are run by the *)
(* event loop when due                                                     *)
SpecHeartbeat ==
  /\ InitHeartbeat
  /\ [][NextHeartbeat]_vars
  /\ WF_vars(Update)
  /\ WF_vars(Advance)
  /\ WF_vars(\E tm \in timers : PingClients(tm))

(***************************************************************************)
(* The close event of a terminated socket.  ws.terminate() destroys the    *)
(* socket, and the socket then emits "close", whose listener (routes.ts)   *)
(* calls handleDisconnection for the same socket a second time.  The       *)
(* pending event is a callback of the event loop, due at once; a           *)
(* connection number stands for the same socket until its close event has  *)
(* been delivered.                                                         *)
(***************************************************************************)
ClosePending(c) == \E tm \in timers : tm.kind = "close" /\ tm.id = c

(* wss.on("connection"): a new socket                                      *)
Connection(c) == ~ClosePending(c) /\ HandleConnection(c)

(* pingClients, with the close events that terminate() brings about        *)
PingClientsTerminate(tm) ==
  /\ tm \in timers
  /\ tm.kind = "ping"
  /\ tm.due <= now
  /\ \E order \in Orders({ c \in DOMAIN connections : Stale(c) }) :
       LET closing == { [ kind |-> "close", id |-> order[i], due |-> now ] :
                          i \in 1 .. Len(order) }
           r == Terminate([ Engine EXCEPT
                              !.timers = ((@ \ {tm}) \cup NextPing(tm))
                                           \cup closing ],
                          connections, order, 1, << >>)
       IN /\ Adopt(r.G)
          /\ connections' = r.connections
          /\ out' = r.out
  /\ last' = RanPlain("ping", None, TRUE)
  /\ UNCHANGED << now, lastUpdate, nextId, events, globe, mlog >>

(* ws.on("close") of a terminated socket: handleDisconnection              *)
SocketClose(tm) ==
  /\ tm \in timers
  /\ tm.kind = "close"
  /\ tm.due <= now
  /\ LET c == tm.id
         p == IF c \in DOMAIN connections THEN BoundPlayer(c) ELSE None
         G == [ Engine EXCEPT !.timers = @ \ {tm} ]
     IN /\ IF p # None
           THEN /\ Adopt(removePlayer(G, p))
                /\ out' = << Broadcast("player_left", p, c) >>
           ELSE /\ Adopt(G)
                /\ out' = << >>
        /\ connections' = Drop(connections, c)
        /\ last' = RanPlain("close", c, TRUE)
  /\ UNCHANGED << now, lastUpdate, nextId, events, globe, mlog >>

NextClose ==
  \/ \E c \in Conns : Connection(c)
  \/ \E c \in Conns : HandleSpawnPlayer(c)
  \/ \E c \in Conns : HandleDisconnection(c)
  \/ \E c \in Conns : HandleSelectTile(c, 4)
  \/ \E c \in Conns : HandlePong(c)
  \/ \E tm \in timers : PingClientsTerminate(tm)
  \/ \E tm \in timers : SocketClose(tm)
  \/ Update
  \/ Advance

SpecClose == InitHeartbeat /\ [][NextClose]_vars

(***************************************************************************)
(* The game loop on its timer.  The constructor starts the interval of     *)
(* TickPeriod ms; the event loop runs a due callback at its due instant or *)
(* some milliseconds later, and the interval is rescheduled from the       *)
(* instant at which the callback ran.  getGameTime() is Date.now() minus   *)
(* gameStartTime, in milliseconds; gameStartTime is 0.                     *)
(***************************************************************************)
Lateness == { 0, 1, 2 }
TickEnd == (SnapshotModulus + MaxRounds) * TickPeriod

(* the next run of the game loop, while the model's time lasts             *)
NextTick(tm) ==
  IF now + TickPeriod <= TickEnd
  THEN { [ tm EXCEPT !.due = now + TickPeriod ] }
  ELSE {}

(* the callback of the game loop interval: GameServer.update               *)
GameLoop(tm) ==
  /\ tm \in timers
  /\ tm.kind = "tick"
  /\ tm.due <= now
  /\ Adopt(update([ Engine EXCEPT !.timers = (@ \ {tm}) \cup NextTick(tm) ],
                  now, lastUpdate))
  /\ lastUpdate' = now
  /\ last' = RanPlain("update", None, TRUE)
  /\ out' = IF now % SnapshotModulus = 0 THEN << Snapshot >> ELSE << >>
  /\ UNCHANGED << connections, now, nextId, events, globe, mlog >>

(* time passes until the event loop runs the next due callback, j ms late  *)
Elapse(j) ==
  /\ timers # {}
  /\ \A tm \in timers : tm.due > now
  /\ now' = NextDue + j
  /\ last' = RanPlain("advance", None, TRUE)
  /\ out' = << >>
  /\ EngineUnchanged
  /\ UNCHANGED << connections, lastUpdate, nextId, events, globe, mlog >>

InitTick ==
  /\ players = << >>
  /\ tiles = [ t \in Tiles |-> [ ownerId |-> None, population |-> 0,
                                 structureType |-> NoStructure,
                                 isIrradiated |-> FALSE ] ]
  /\ missiles = << >>
  /\ alliances = << >>
  /\ connections = << >>
  /\ timers = { [ kind |-> "tick", id |-> None, due |-> TickPeriod ] }
  /\ now = 0
  /\ lastUpdate = 0
  /\ nextId = [ player |-> 1, missile |-> 1, alliance |-> 1 ]
  /\ events = 0
  /\ last = RanPlain("init", None, TRUE)
  /\ out = << >>
  /\ mlog = << >>
  /\ globe = Built

NextTickLoop ==
  \/ HandleConnection(1)
  \/ HandleDisconnection(1)
  \/ \E tm \in timers : GameLoop(tm)
  \/ \E j \in Lateness : Elapse(j)

(* the event loop runs the game loop whenever its interval is due          *)
SpecTick ==
  /\ InitTick
  /\ [][NextTickLoop]_vars
  /\ WF_vars(\E tm \in timers : GameLoop(tm))
  /\ WF_vars(\E j \in Lateness : Elapse(j))

(***************************************************************************)
(* The construction of the world, step by step: the faces of the           *)
(* icosahedron one after the other, the vertexToFaces map, the tiles one   *)
(* vertex after the other, and the adjacency map of the GameState.         *)
(***************************************************************************)
ServerUnchanged ==
  UNCHANGED << players, tiles, missiles, alliances, connections, timers, now,
               lastUpdate, nextId, events, last, out, mlog >>

InitGlobe ==
  /\ players = << >>
  /\ tiles = [ t \in Tiles |-> [ ownerId |-> None, population |-> 0,
                                 structureType |-> NoStructure,
                                 isIrradiated |-> FALSE ] ]
  /\ missiles = << >>
  /\ alliances = << >>
  /\ connections = << >>
  /\ timers = {}
  /\ now = 0
  /\ lastUpdate = 0
  /\ nextId = [ player |-> 1, missile |-> 1, alliance |-> 1 ]
  /\ events = 0
  /\ last = RanPlain("init", None, TRUE)
  /\ out = << >>
  /\ mlog = << >>
  /\ \E f \in Frequencies :
       globe = [ stage |-> "subdivide", frequency |-> f, face |-> 1,
                 subdividedVertices |-> << >>, subdividedFaces |-> << >>,
                 order |-> << >>, next |-> 1, tiles |-> << >>,
                 adjacencyMap |-> << >> ]

(* generateGlobe, step 2: one turn of the loop over the faces              *)
SubdivideFace ==
  /\ globe.stage = "subdivide"
  /\ LET r == AddPoints(globe.subdividedVertices, IcoFaces[globe.face],
                        globe.frequency)
     IN globe' = [ globe EXCEPT
                     !.subdividedVertices = r.subdividedVertices,
                     !.subdividedFaces =
                        @ \o GridFaces(r.faceIndices, globe.frequency),
                     !.face = @ + 1,
                     !.stage = IF globe.face = Len(IcoFaces)
                               THEN "dual" ELSE "subdivide" ]
  /\ ServerUnchanged

(* createDualPolyhedron, the loop over the faces: the vertexToFaces map    *)
VertexToFaces ==
  /\ globe.stage = "dual"
  /\ globe' = [ globe EXCEPT !.order = InsertionOrder(globe.subdividedFaces),
                             !.stage = "tiles" ]
  /\ ServerUnchanged

(* createDualPolyhedron, one turn of the loop over vertexToFaces: a vertex *)
(* with fewer than three faces is skipped, another one becomes a tile      *)
CreateTile ==
  /\ globe.stage = "tiles"
  /\ LET v == globe.order[globe.next]
         around == AdjacentFaces(globe.subdividedFaces, v)
         tile == [ id |-> Len(globe.tiles),
                   type |-> TileType(IF Len(around) > 6 THEN 6
                                     ELSE Len(around)),
                   center |-> TileCenter(globe.subdividedVertices,
                                         globe.subdividedFaces, around) ]
     IN globe' = [ globe EXCEPT
                     !.tiles = IF Len(around) < 3 THEN @ ELSE Append(@, tile),
                     !.next = @ + 1,
                     !.stage = IF globe.next = Len(globe.order)
                               THEN "adjacency" ELSE "tiles" ]
  /\ ServerUnchanged

(* the constructor of GameState: tileData is the tiles of the globe, and   *)
(* buildAdjacencyMap                                                       *)
GameStateConstructor ==
  /\ globe.stage = "adjacency"
  /\ globe' = [ globe EXCEPT !.adjacencyMap = buildAdjacencyMap(globe.tiles),
                             !.stage = "done" ]
  /\ ServerUnchanged

NextGlobe ==
  \/ SubdivideFace
  \/ VertexToFaces
  \/ CreateTile
  \/ GameStateConstructor

SpecGlobe == InitGlobe /\ [][NextGlobe]_vars

(***************************************************************************)
(* The terrain of one tile: generateTerrainType.  The latitude is in half  *)
(* degrees, the normalised elevation in hundredths; the moisture and the   *)
(* desert threshold are binary64 numbers, and the two fbm values are       *)
(* inputs.                                                                 *)
(***************************************************************************)
SeaLevel == 55
MountainThreshold == 35
Tropic == 47
PolarCircle == 133
SubtropicalFrom == 30
SubtropicalTo == 80

Latitudes == -180 .. 180
Elevations == { 50, 55, 60, 65, 70, 75 }
Moistures == { Divide(m, 20) : m \in 0 .. 20 }

Abs(n) == IF n < 0 THEN -n ELSE n

(* x + y for x + y < 2                                                     *)
Add(x, y) ==
  RoundNearestEven(
    Stored([ k \in Digits |->
               (x[k] + y[k]
                  + (IF \E p \in (k + 1) .. (Places + 1) :
                          /\ x[p] = 1 /\ y[p] = 1
                          /\ \A q \in (k + 1) .. (p - 1) : x[q] + y[q] = 1
                     THEN 1 ELSE 0)) % 2 ]),
    FALSE)

equatorialZone(lat) == Abs(lat) < Tropic
temperateZone(lat) == Abs(lat) >= Tropic /\ Abs(lat) < PolarCircle
polarZone(lat) == Abs(lat) >= PolarCircle
isSubtropical(lat) == Abs(lat) > SubtropicalFrom /\ Abs(lat) < SubtropicalTo

desertThreshold(lat) ==
  LET base == Divide(4, 10)
      belt == IF isSubtropical(lat) THEN Subtract(base, Divide(2, 10))
              ELSE base
      north == IF lat > 0 /\ isSubtropical(lat) THEN Add(belt, Divide(1, 10))
               ELSE belt
  IN IF equatorialZone(lat) THEN Add(north, Divide(1, 10))
     ELSE IF polarZone(lat) THEN Add(north, Divide(3, 10))
     ELSE north

(* the threshold of every latitude, the southernmost first                 *)
DesertThresholds ==
  SubSeq([ n \in 1 .. 361 |-> desertThreshold(n - 181) ], 1, 361)

generateTerrainType(lat, elevNorm, moisture) ==
  IF elevNorm < SeaLevel THEN "water"
  ELSE IF (elevNorm - SeaLevel) * 100 > MountainThreshold * (100 - SeaLevel)
  THEN "mountain"
  ELSE IF BinaryLess(moisture, DesertThresholds[lat + 181], 0) THEN "desert"
  ELSE "grass"

InitTerrain ==
  /\ players = << >>
  /\ tiles = [ t \in Tiles |-> [ ownerId |-> None, population |-> 0,
                                 structureType |-> NoStructure,
                                 isIrradiated |-> FALSE ] ]
  /\ missiles = << >>
  /\ alliances = << >>
  /\ connections = << >>
  /\ timers = {}
  /\ now = 0
  /\ lastUpdate = 0
  /\ nextId = [ player |-> 1, missile |-> 1, alliance |-> 1 ]
  /\ events = 0
  /\ last = RanPlain("init", None, TRUE)
  /\ out = << >>
  /\ mlog = << >>
  /\ \E lat \in Latitudes, elevNorm \in Elevations, moisture \in Moistures :
       globe = [ stage |-> "classify", lat |-> lat, elevNorm |-> elevNorm,
                 moisture |-> moisture, terrainType |-> "water" ]

(* createDualPolyhedron, line 305: the terrain of the tile being created   *)
GenerateTerrainType ==
  /\ globe.stage = "classify"
  /\ globe' = [ globe EXCEPT
                  !.terrainType = generateTerrainType(globe.lat,
                                                      globe.elevNorm,
                                                      globe.moisture),
                  !.stage = "classified" ]
  /\ ServerUnchanged

NextTerrain == GenerateTerrainType

SpecTerrain == InitTerrain /\ [][NextTerrain]_vars

(***************************************************************************)
(* The claims.  A claim about what one Engine call does is stated of the   *)
(* call made in any reachable state with any input of the sets below: the  *)
(* state before the call is the current state, the state after it is the   *)
(* one the operation returns.                                              *)
(***************************************************************************)
PlayerInputs == DOMAIN players \cup { nextId.player }
MissileInputs == 1 .. (MaxMissiles + 1)
AllianceInputs == DOMAIN alliances \cup { nextId.alliance }
AnyRatio == { -1, 0, 2, 5, RatioOne, RatioOne + 1 }

Unchanged(r) == StateOf(r) = Engine

(* floor(population x (1 - workerRatio)) of a player, from the state       *)
SoldierCountOf(p) ==
  (players[p].population * (RatioOne - players[p].workerRatio)) \div RatioOne

(* floor(tile.population x (1 - owner.workerRatio)) of an owned tile       *)
DefenderCountOn(t) ==
  (tiles[t].population * (RatioOne - players[tiles[t].ownerId].workerRatio))
    \div (RatioOne * PopScale)

EnemyTile(p, t) == tiles[t].ownerId # None /\ tiles[t].ownerId # p

(* C1: whenever an Engine action operation returns success = false, the    *)
(* players, tiles, missiles and alliances are exactly as before the call.  *)
C1_FailureChangesNothing ==
  /\ \A p \in PlayerInputs, t \in TileInputs :
       LET r == selectTile(Engine, p, t, now) IN ~r.success => Unchanged(r)
  /\ \A p \in PlayerInputs, v \in AnyRatio :
       /\ LET r == adjustWorkerRatio(Engine, p, v, now)
          IN ~r.success => Unchanged(r)
       /\ LET r == adjustTroopDeployment(Engine, p, v, now)
          IN ~r.success => Unchanged(r)
  /\ \A p \in PlayerInputs, t \in TileInputs, st \in StructureInputs :
       LET r == buildStructure(Engine, p, t, st, now)
       IN ~r.success => Unchanged(r)
  /\ \A p \in PlayerInputs, f \in TileInputs, t \in TileInputs :
       LET r == launchMissile(Engine, p, f, t, nextId.missile, now)
       IN ~r.success => Unchanged(r)
  /\ \A m \in MissileInputs :
       LET r == impactMissile(Engine, m, now) IN ~r.success => Unchanged(r)
  /\ \A p \in PlayerInputs :
       /\ \A pub \in BOOLEAN :
            LET r == createAlliance(Engine, p, nextId.alliance, pub)
            IN ~r.success => Unchanged(r)
       /\ \A a \in AllianceInputs :
            LET r == joinAlliance(Engine, p, a) IN ~r.success => Unchanged(r)
       /\ LET r == leaveAlliance(Engine, p) IN ~r.success => Unchanged(r)
       /\ \A q \in PlayerInputs :
            LET r == kickFromAlliance(Engine, p, q)
            IN ~r.success => Unchanged(r)

(* C2 as stated: when the attacker's soldier count A exceeds the count D   *)
(* of the attacked tile, the tile goes to the attacker with population     *)
(* A - D and both players' populations decrease by exactly D.              *)
C2_AttackerWinsExactLoss ==
  \A p \in DOMAIN players, t \in Tiles :
    (EnemyTile(p, t) /\ SoldierCountOf(p) > DefenderCountOn(t)) =>
      LET r == selectTile(Engine, p, t, now)
          d == tiles[t].ownerId
          A == SoldierCountOf(p)
          D == DefenderCountOn(t)
      IN /\ r.tiles[t].ownerId = p
         /\ r.tiles[t].population = (A - D) * PopScale
         /\ r.players[p].population = players[p].population - D
         /\ r.players[d].population = players[d].population - D

(* C2 as amended: the same, except that the defender's population stops at *)
(* 0: it becomes max(0, population - D).                                   *)
C2_AttackerWins ==
  \A p \in DOMAIN players, t \in Tiles :
    (EnemyTile(p, t) /\ SoldierCountOf(p) > DefenderCountOn(t)) =>
      LET r == selectTile(Engine, p, t, now)
          d == tiles[t].ownerId
          A == SoldierCountOf(p)
          D == DefenderCountOn(t)
      IN /\ r.success
         /\ r.tiles[t].ownerId = p
         /\ r.tiles[t].population = (A - D) * PopScale
         /\ r.players[p].population = players[p].population - D
         /\ r.players[d].population =
              IF players[d].population >= D THEN players[d].population - D
              ELSE 0

(* an attacker has just won a tile and both sides have lost soldiers       *)
C2_Witness ==
  /\ last.op = "select_tile" /\ last.type = "captured"
  /\ \A p \in DOMAIN players : players[p].population < StartPopulation
  /\ \E t \in Tiles : /\ tiles[t].ownerId = BoundPlayer(last.conn)
                      /\ tiles[t].population > 0
                      /\ tiles[t].population % PopScale = 0

(* C3: when the defender's count D exceeds the attacker's count A, the     *)
(* tile stays with the defender with population D - A, and the attacker's  *)
(* and the defender's populations both decrease by A.                      *)
C3_DefenderWins ==
  \A p \in DOMAIN players, t \in Tiles :
    (EnemyTile(p, t) /\ DefenderCountOn(t) > SoldierCountOf(p)) =>
      LET r == selectTile(Engine, p, t, now)
          d == tiles[t].ownerId
          A == SoldierCountOf(p)
          D == DefenderCountOn(t)
      IN /\ r.tiles[t].ownerId = d
         /\ r.tiles[t].population = (D - A) * PopScale
         /\ r.players[p].population = players[p].population - A
         /\ r.players[d].population = players[d].population - A

(* C4: when the two counts are equal, the tile becomes ownerless with      *)
(* population 0, the attacker's population decreases by A and the          *)
(* defender's by D.                                                        *)
C4_Draw ==
  \A p \in DOMAIN players, t \in Tiles :
    (EnemyTile(p, t) /\ DefenderCountOn(t) = SoldierCountOf(p)) =>
      LET r == selectTile(Engine, p, t, now)
          d == tiles[t].ownerId
          A == SoldierCountOf(p)
          D == DefenderCountOn(t)
      IN /\ r.tiles[t].ownerId = None
         /\ r.tiles[t].population = 0
         /\ r.players[p].population = players[p].population - A
         /\ r.players[d].population = players[d].population - D

(* C5: a selectTile call that claims succeeds only for a tile that is      *)
(* non-water, unowned and, unless the caller owns no tile, adjacent to a   *)
(* tile the caller owns; on a water tile or a non-adjacent tile it fails   *)
(* and no tile changes owner; and no water tile is ever owned.             *)
C5_ClaimRules ==
  /\ \A t \in Tiles : terrainType(t) = "water" => tiles[t].ownerId = None
  /\ \A p \in DOMAIN players, t \in Tiles :
       LET r == selectTile(Engine, p, t, now)
           ownsSome == \E u \in Tiles : tiles[u].ownerId = p
           adjacent == \E u \in Neighbours(t) : tiles[u].ownerId = p
       IN /\ (r.success /\ r.data.type = "claimed") =>
               /\ tiles[t].ownerId = None
               /\ terrainType(t) # "water"
               /\ ownsSome => adjacent
          /\ ( /\ tiles[t].ownerId = None
               /\ terrainType(t) = "water" \/ (ownsSome /\ ~adjacent) ) =>
               /\ ~r.success
               /\ \A u \in Tiles : r.tiles[u].ownerId = tiles[u].ownerId

(* a player who owns tiles has just been refused a tile away from them     *)
C5_Witness ==
  /\ last.op = "select_tile"
  /\ ~last.success
  /\ last.error = "Tile not adjacent to your territory"
  /\ \E t \in Tiles : tiles[t].ownerId = BoundPlayer(last.conn)

C7_LaunchRequirements ==
  \A p \in PlayerInputs, f \in TileInputs, t \in TileInputs :
    LET id == nextId.missile
        r == launchMissile(Engine, p, f, t, id, now)
    IN r.success =>
         /\ tiles[f].ownerId = p
         /\ tiles[f].structureType = "missile_silo"
         /\ players[p].gold >= 200 * GoldUnit
         /\ r.players[p].gold = players[p].gold - 200 * GoldUnit
         /\ id \notin DOMAIN missiles
         /\ DOMAIN r.missiles = DOMAIN missiles \cup { id }
         /\ \A m \in DOMAIN missiles : r.missiles[m] = missiles[m]
         /\ r.missiles[id].fromTileId = f
         /\ r.missiles[id].toTileId = t
         /\ r.missiles[id].playerId = p
         /\ r.missiles[id].travelTime = 15000

(* the tiles at graph distance at most k from t in the adjacency graph     *)
RECURSIVE WithinDistance(_, _)
WithinDistance(t, k) ==
  IF k = 0 THEN { t }
  ELSE LET B == WithinDistance(t, k - 1)
       IN B \cup UNION { Neighbours(u) : u \in B }

(* C8: the impact of a registered missile with target t changes exactly    *)
(* the tiles at graph distance at most 2 from t: the population of each    *)
(* becomes floor(0.2 x population), its structure is cleared and it is     *)
(* irradiated; every tile farther away is unchanged.                       *)
C8_BlastRadius ==
  \A m \in DOMAIN missiles :
    LET r == impactMissile(Engine, m, now)
        hit == WithinDistance(missiles[m].toTileId, 2)
    IN /\ r.success
       /\ \A u \in Tiles :
            r.tiles[u] =
              IF u \in hit
              THEN [ ownerId |-> tiles[u].ownerId,
                     population |->
                       (tiles[u].population \div (5 * PopScale)) * PopScale,
                     structureType |-> NoStructure,
                     isIrradiated |-> TRUE ]
              ELSE tiles[u]

(* an impact has just hit an owned, populated tile and has left a populated *)
(* tile with a silo, farther than 2 from the target, as it was             *)
C8_Witness ==
  /\ last.op = "impact" /\ last.success
  /\ \E u \in Tiles, v \in Tiles :
       /\ tiles[u].isIrradiated /\ tiles[u].ownerId # None
       /\ tiles[u].population > 0 /\ tiles[u].structureType = NoStructure
       /\ ~tiles[v].isIrradiated /\ tiles[v].population > 0
       /\ tiles[v].structureType = "missile_silo"

Launched(m) == m \in DOMAIN mlog
Impacted(m) == m \in DOMAIN mlog /\ mlog[m].impacts >= 1
Deleted(m) == m \in DOMAIN mlog /\ m \notin DOMAIN missiles

(* C9: every launched missile eventually has its impact applied, no        *)
(* earlier than its launch and after the missile_launched broadcast, and   *)
(* is eventually deleted from the registry after that impact; a missile    *)
(* record is never deleted before its impact has fired.                    *)
C9_MissileLifecycle ==
  /\ [](\A m \in DOMAIN mlog :
          /\ Deleted(m) => Impacted(m)
          /\ Impacted(m) => /\ mlog[m].announced
                            /\ mlog[m].impactAt >= mlog[m].launched)
  /\ \A m \in 1 .. MaxMissiles : Launched(m) ~> Impacted(m)
  /\ \A m \in 1 .. MaxMissiles : Launched(m) ~> Deleted(m)

(* a missile has been deleted, after its impact at launch + travel time    *)
C9_Witness ==
  /\ last.op = "delete"
  /\ \E m \in DOMAIN mlog :
       /\ Deleted(m)
       /\ mlog[m].impacts = 1
       /\ mlog[m].impactAt = mlog[m].launched + TravelTime
       /\ now = mlog[m].impactAt + DeleteDelay

Handled(op, c) == events' = events + 1 /\ last'.op = op /\ last'.conn = c

(* C11: a connection binds a player at most once: spawn_player on a        *)
(* connection that has a bound player yields an error event to that        *)
(* connection and creates no player, and the bound player id of an open    *)
(* connection is never changed or cleared.                                 *)
C11_BindOnce ==
  [][ \A c \in DOMAIN connections :
        BoundPlayer(c) # None =>
          /\ c \in DOMAIN connections' =>
                connections'[c].playerId = BoundPlayer(c)
          /\ Handled("spawn_player", c) =>
                /\ out' = << SendError(c) >>
                /\ ~last'.success
                /\ UNCHANGED << players, tiles, missiles, alliances, nextId >>
    ]_vars

C11_Witness ==
  /\ last.op = "spawn_player"
  /\ last.error = "Player already spawned"
  /\ last.conn \in DOMAIN connections
  /\ BoundPlayer(last.conn) \in DOMAIN players
  /\ out = << SendError(last.conn) >>

(* C12: a message of any known type other than spawn_player that arrives   *)
(* on a connection with no bound player produces an error event to that    *)
(* connection only and leaves players, tiles, missiles and alliances       *)
(* unchanged.                                                              *)
C12_UnboundRefused ==
  [][ \A c \in DOMAIN connections, op \in KnownTypes :
        (BoundPlayer(c) = None /\ Handled(op, c)) =>
          /\ out' = << Event("error", {c}, None) >>
          /\ UNCHANGED << players, tiles, missiles, alliances >>
    ]_vars

C12_Witness ==
  /\ last.op = "create_alliance"
  /\ last.error = "Player not spawned"
  /\ BoundPlayer(last.conn) = None
  /\ out = << Event("error", { last.conn }, None) >>
  /\ Cardinality(DOMAIN connections) = MaxConns
  /\ \E p \in DOMAIN players : OwnedTiles(Engine, p) # {}

(* C13: disconnecting a connection bound to player p removes p and         *)
(* releases p's territory within the same event: after handleDisconnection *)
(* p is not in the player registry, no tile has ownerId p, the connection  *)
(* is no longer registered, and the tiles owned by other players are       *)
(* untouched.                                                              *)
C13_DisconnectRemoves ==
  [][ \A c \in DOMAIN connections :
        (BoundPlayer(c) # None /\ Handled("disconnect", c)) =>
          LET p == BoundPlayer(c) IN
          /\ p \notin DOMAIN players'
          /\ \A t \in Tiles : tiles'[t].ownerId # p
          /\ c \notin DOMAIN connections'
          /\ \A t \in Tiles :
               (tiles[t].ownerId # None /\ tiles[t].ownerId # p) =>
                 tiles'[t] = tiles[t]
    ]_vars

(* a player who held a headquarters has left, and another player's         *)
(* territory is still there                                                *)
C13_Witness ==
  /\ last.op = "disconnect"
  /\ Len(out) = 1
  /\ out[1].type = "player_left"
  /\ out[1].id \notin DOMAIN players
  /\ last.conn \notin DOMAIN connections
  /\ \E t \in Tiles :
       tiles[t].ownerId = None /\ tiles[t].structureType = "base_hq"
  /\ \E q \in DOMAIN players : OwnedTiles(Engine, q) # {}

(* the number of places at which p stands in the memberIds of alliance a   *)
Occurrences(a, p) ==
  Cardinality({ i \in 1 .. Len(alliances[a].memberIds) :
                  alliances[a].memberIds[i] = p })

AlliancesOf(p) == { a \in DOMAIN alliances : Occurrences(a, p) > 0 }

(* C14: in every reachable state a player belongs to at most one alliance: *)
(* each player id occurs in the memberIds of at most one alliance and at   *)
(* most once there, and createAlliance and joinAlliance fail without       *)
(* change for a player whose allianceId is already set.                    *)
C14_OneAlliance ==
  /\ \A p \in 1 .. nextId.player :
       /\ Cardinality(AlliancesOf(p)) <= 1
       /\ \A a \in DOMAIN alliances : Occurrences(a, p) <= 1
  /\ \A p \in DOMAIN players :
       players[p].allianceId # None =>
         /\ \A isPublic \in BOOLEAN :
              LET r == createAlliance(Engine, p, nextId.alliance, isPublic)
              IN ~r.success /\ Unchanged(r)
         /\ \A a \in AllianceInputs :
              LET r == joinAlliance(Engine, p, a)
              IN ~r.success /\ Unchanged(r)

(* two alliances with members, one of them public, and a member of the     *)
(* other who has just been refused                                         *)
C14_Witness ==
  /\ last.op = "join_alliance"
  /\ last.error = "Player is already in an alliance"
  /\ \E a, b \in DOMAIN alliances :
       /\ a # b
       /\ alliances[a].isPublic
       /\ Len(alliances[a].memberIds) > 0
       /\ BoundPlayer(last.conn) \in Range(alliances[b].memberIds)

(* the members of alliance a other than p                                  *)
OtherMembers(a, p) == Range(alliances[a].memberIds) \ {p}

(* C15: when the leader of an alliance leaves through leaveAlliance while  *)
(* other members remain, the alliance stays in the registry and its        *)
(* leaderId becomes one of the remaining members; when a non-leader        *)
(* leaves, leaderId is unchanged.                                          *)
C15_LeaderLeaves ==
  \A p \in DOMAIN players :
    players[p].allianceId \in DOMAIN alliances =>
      LET a == players[p].allianceId
          r == leaveAlliance(Engine, p)
      IN /\ (alliances[a].leaderId = p /\ OtherMembers(a, p) # {}) =>
              /\ r.success
              /\ a \in DOMAIN r.alliances
              /\ r.alliances[a].leaderId \in OtherMembers(a, p)
              /\ r.alliances[a].leaderId \in Range(r.alliances[a].memberIds)
         /\ alliances[a].leaderId # p =>
              /\ r.success
              /\ a \in DOMAIN r.alliances
              /\ r.alliances[a].leaderId = alliances[a].leaderId

(* a second player has just joined, and the leader's departure hands the   *)
(* alliance to that player                                                 *)
C15_Witness ==
  /\ last.op = "join_alliance" /\ last.success
  /\ \E a \in DOMAIN alliances :
       LET p == alliances[a].leaderId
           q == BoundPlayer(last.conn)
       IN /\ p \in DOMAIN players /\ players[p].allianceId = a
          /\ q # p /\ q \in Range(alliances[a].memberIds)
          /\ leaveAlliance(Engine, p).alliances[a].leaderId = q
          /\ leaveAlliance(Engine, q).alliances[a].leaderId = p

(* C16: an alliance is disbanded when it becomes empty: in every reachable *)
(* state no alliance with an empty member set is in the alliance registry, *)
(* whichever of leaveAlliance or kickFromAlliance removed its last member. *)
C16_NoEmptyAlliance ==
  \A a \in DOMAIN alliances : Len(alliances[a].memberIds) > 0

(* player p belongs to alliance a: its allianceId names a and its id       *)
(* stands in a's memberIds                                                 *)
BelongsTo(p, a) ==
  /\ p \in DOMAIN players
  /\ a \in DOMAIN alliances
  /\ players[p].allianceId = a
  /\ p \in Range(alliances[a].memberIds)

(* C17: kickFromAlliance succeeds only when the caller is the leader of an *)
(* alliance that both the caller and the target belong to; on success the  *)
(* target is removed from memberIds and its allianceId is cleared; a call  *)
(* by a non-leader or across alliances fails and changes nothing.          *)
C17_KickAuthority ==
  \A l \in PlayerInputs, m \in PlayerInputs :
    LET r == kickFromAlliance(Engine, l, m) IN
    /\ r.success =>
         \E a \in DOMAIN alliances :
           /\ alliances[a].leaderId = l
           /\ BelongsTo(l, a)
           /\ BelongsTo(m, a)
           /\ m \notin Range(r.alliances[a].memberIds)
           /\ r.players[m].allianceId = None
    /\ (l \in DOMAIN players /\ m \in DOMAIN players) =>
         /\ players[l].allianceId # players[m].allianceId =>
              ~r.success /\ Unchanged(r)
         /\ \A a \in DOMAIN alliances :
              (players[l].allianceId = a /\ alliances[a].leaderId # l) =>
                ~r.success /\ Unchanged(r)

(* a member has just been refused the kick of its leader, and the leader's *)
(* kick of that member would succeed                                       *)
C17_Witness ==
  /\ last.op = "kick_from_alliance"
  /\ last.error = "Only the alliance leader can kick members"
  /\ \E a \in DOMAIN alliances :
       LET l == alliances[a].leaderId
           m == BoundPlayer(last.conn)
       IN /\ l # m
          /\ BelongsTo(l, a) /\ BelongsTo(m, a)
          /\ kickFromAlliance(Engine, l, m).success
          /\ kickFromAlliance(Engine, l, m).alliances[a].memberIds = << l >>

(* C18: joinAlliance by an unaffiliated player on a private alliance fails *)
(* and changes nothing; on a public alliance it succeeds, appends the      *)
(* player to memberIds exactly once and sets the player's allianceId to    *)
(* that alliance.                                                          *)
C18_JoinGating ==
  \A p \in DOMAIN players, a \in DOMAIN alliances :
    players[p].allianceId = None =>
      LET r == joinAlliance(Engine, p, a) IN
      IF alliances[a].isPublic
      THEN /\ r.success
           /\ r.alliances[a].memberIds = Append(alliances[a].memberIds, p)
           /\ Cardinality({ i \in 1 .. Len(r.alliances[a].memberIds) :
                               r.alliances[a].memberIds[i] = p }) = 1
           /\ r.players[p].allianceId = a
      ELSE ~r.success /\ Unchanged(r)

(* an unaffiliated player has just been refused by a private alliance, and *)
(* a public alliance with a member would take the same player              *)
C18_Witness ==
  /\ last.op = "join_alliance"
  /\ last.error = "Alliance is private"
  /\ players[BoundPlayer(last.conn)].allianceId = None
  /\ \E a, b \in DOMAIN alliances :
       /\ ~alliances[a].isPublic
       /\ alliances[b].isPublic
       /\ Len(alliances[b].memberIds) > 0
       /\ joinAlliance(Engine, BoundPlayer(last.conn), b).success

(* C19: an inbound message that fails to decode, or whose type is not one  *)
(* of the known message types, results in an error event sent to the       *)
(* originating connection only, leaves the Engine state unchanged, and     *)
(* leaves the connection registered with its player binding unchanged.     *)
C19_BadMessage ==
  [][ \A c \in DOMAIN connections :
        (Handled("undecodable", c) \/ Handled("unknown", c)) =>
          /\ out' = << Event("error", {c}, None) >>
          /\ UNCHANGED << players, tiles, missiles, alliances >>
          /\ c \in DOMAIN connections'
          /\ connections'[c].playerId = BoundPlayer(c)
          /\ DOMAIN connections' = DOMAIN connections
    ]_vars

(* a spawned player with territory has sent what cannot be decoded, while  *)
(* another connection is open                                              *)
C19_Witness ==
  /\ last.op = "undecodable"
  /\ last.error = "Invalid message format"
  /\ out = << Event("error", { last.conn }, None) >>
  /\ Cardinality(DOMAIN connections) = MaxConns
  /\ BoundPlayer(last.conn) \in DOMAIN players
  /\ OwnedTiles(Engine, BoundPlayer(last.conn)) # {}

(* C20: when a selectTile attack on a tile owned by another player is      *)
(* resolved as an attacker win, the server broadcasts to all open          *)
(* connections a territory_expanded event that names the captured tile and *)
(* the attacker as its new owner.                                          *)
C20_CaptureAnnounced ==
  (last.op = "select_tile" /\ last.success /\ last.type = "captured") =>
    \E i \in 1 .. Len(out) :
      /\ out[i].type = "territory_expanded"
      /\ out[i].to = DOMAIN connections
      /\ out[i].id \in Tiles
      /\ tiles[out[i].id].ownerId = BoundPlayer(last.conn)

(* C21: buildStructure succeeds exactly when the caller owns the tile, has *)
(* at least 100 gold, the tile has no structure of any type (base_hq       *)
(* included) and, for a port, at least one neighbouring tile is water; on  *)
(* success the player's gold decreases by exactly 100 and the tile's       *)
(* structureType becomes the requested type; an existing structure is      *)
(* never overwritten.                                                      *)
C21_BuildStructure ==
  \A p \in PlayerInputs, t \in TileInputs, st \in StructureInputs :
    LET r == buildStructure(Engine, p, t, st, now)
        allowed ==
          /\ p \in DOMAIN players
          /\ t \in Tiles
          /\ tiles[t].ownerId = p
          /\ players[p].gold >= 100 * GoldUnit
          /\ tiles[t].structureType = NoStructure
          /\ st = "port" => Neighbours(t) \cap WaterTiles # {}
    IN /\ r.success <=> allowed
       /\ r.success =>
            /\ r.players[p].gold = players[p].gold - 100 * GoldUnit
            /\ r.tiles[t].structureType = st
       /\ (t \in Tiles /\ tiles[t].structureType # NoStructure) =>
            r.tiles[t].structureType = tiles[t].structureType

(* a port has just been built next to the water by a player whose          *)
(* headquarters stands elsewhere, and 100 gold of the tick's 600 are spent *)
C21_Witness ==
  /\ last.op = "build_structure" /\ last.success
  /\ LET p == BoundPlayer(last.conn) IN
       /\ players[p].gold = 500 * GoldUnit
       /\ \E t, h \in Tiles :
            /\ tiles[t].ownerId = p /\ tiles[t].structureType = "port"
            /\ tiles[h].ownerId = p /\ tiles[h].structureType = "base_hq"
            /\ ~buildStructure(Engine, p, h, "city", now).success

C23_RatioOneNoGold ==
  \A p \in DOMAIN players :
    players[p].workerRatio = RatioOne =>
      LET G == update(Engine, now, lastUpdate) IN
      p \in DOMAIN G.players => G.players[p].gold = players[p].gold

(* the worker share of a population, in tenths of a person, and the        *)
(* soldier share that is its complement, floored                           *)
WorkerShare(population, workerRatio) == population * workerRatio
SoldierShare(population, workerRatio) ==
  (population * RatioOne - WorkerShare(population, workerRatio)) \div RatioOne

(* C24: a player whose workerRatio is 0 has zero worker-assigned           *)
(* population, and one convention is applied everywhere: the worker share  *)
(* from which the tick generates gold and the soldier share used by combat *)
(* and by expansion are complementary shares of the same population, so    *)
(* with workerRatio = 0 the tick adds no gold and the whole population     *)
(* counts as soldiers.                                                     *)
C24_OneConvention ==
  \A p \in DOMAIN players :
    LET pl == players[p]
        G == update(Engine, now, lastUpdate)
        soldiers == SoldierShare(pl.population, pl.workerRatio)
    IN
    (* the tick: 0.1 gold per second and worker of the grown population *)
    /\ p \in DOMAIN G.players =>
         G.players[p].gold - pl.gold =
           WorkerShare(G.players[p].population, pl.workerRatio)
             * ((now - lastUpdate) \div 100)
    (* combat: the attacker's soldiers against the tile's *)
    /\ \A t \in Tiles :
         EnemyTile(p, t) =>
           LET d == players[tiles[t].ownerId]
               defenders ==
                 (tiles[t].population * RatioOne
                    - WorkerShare(tiles[t].population, d.workerRatio))
                 \div (RatioOne * PopScale)
               r == selectTile(Engine, p, t, now)
           IN /\ r.data.type = "captured" <=> soldiers > defenders
              /\ r.data.type = "draw" <=> soldiers = defenders
    (* expansion: 50 soldiers are needed *)
    /\ \A t \in Tiles :
         ( /\ tiles[t].ownerId = None
           /\ t \notin WaterTiles
           /\ \E u \in Neighbours(t) : tiles[u].ownerId = p ) =>
           (selectTile(Engine, p, t, now).success <=> soldiers >= 50)
    (* no workers at ratio 0 *)
    /\ pl.workerRatio = 0 =>
         /\ WorkerShare(pl.population, pl.workerRatio) = 0
         /\ soldiers = pl.population
         /\ p \in DOMAIN G.players => G.players[p].gold = pl.gold

(* the tick has run over 10 s for a player with territory whose            *)
(* workerRatio is 0: no gold has come in, and another player has earned    *)
C24_Witness ==
  /\ last.op = "update"
  /\ now = GrowthPeriod /\ lastUpdate = now
  /\ \E p, q \in DOMAIN players :
       /\ players[p].workerRatio = 0
       /\ players[p].gold = 0
       /\ players[p].population = StartPopulation + GrowthAmount
       /\ OwnedTiles(Engine, p) # {}
       /\ players[q].gold > 0

(* C25: after every tick no player remains whose lastActive lies more than *)
(* 30 minutes before the tick time, and every tile that a pruned player    *)
(* owned is ownerless; players active within the last 30 minutes are not   *)
(* removed by the tick.                                                    *)
C25_InactivePruned ==
  LET G == update(Engine, now, lastUpdate)
      limit == 30 * 60 * 1000
  IN /\ \A p \in DOMAIN G.players : now - G.players[p].lastActive <= limit
     /\ \A p \in DOMAIN players :
          IF now - players[p].lastActive > limit
          THEN /\ p \notin DOMAIN G.players
               /\ \A t \in Tiles :
                    tiles[t].ownerId = p => G.tiles[t].ownerId = None
          ELSE /\ p \in DOMAIN G.players
               /\ \A t \in Tiles :
                    tiles[t].ownerId = p => G.tiles[t].ownerId = p

(* the tick has pruned the player of an open connection, whose             *)
(* headquarters is ownerless, and has kept a player who acted later        *)
C25_Witness ==
  /\ last.op = "update"
  /\ now > InactivityThreshold
  /\ \E c \in DOMAIN connections :
       BoundPlayer(c) # None /\ BoundPlayer(c) \notin DOMAIN players
  /\ \E t \in Tiles :
       tiles[t].ownerId = None /\ tiles[t].structureType = "base_hq"
  /\ \E q \in DOMAIN players :
       /\ players[q].lastActive > 0
       /\ OwnedTiles(Engine, q) # {}

(* C26: when a player is removed (disconnect or inactivity), every tile    *)
(* the player owned is cleared: its ownerId is unset, its population is 0  *)
(* and its structureType is unset; the tile itself stays in the tile set.  *)
C26_TilesCleared ==
  \A p \in DOMAIN players :
    LET G == removePlayer(Engine, p) IN
    /\ DOMAIN G.tiles = Tiles
    /\ \A t \in Tiles :
         tiles[t].ownerId = p =>
           /\ G.tiles[t].ownerId = None
           /\ G.tiles[t].population = 0
           /\ G.tiles[t].structureType = NoStructure

(* connection c is open and its last pong (or its opening) was at time T   *)
SilentSince(c, T) ==
  c \in DOMAIN connections /\ connections[c].lastPing = T

(* the instants of the model at which a connection can open or answer      *)
PongTimes == { k * PingPeriod : k \in 0 .. MaxRounds }

(* C27: a connection that stops acknowledging heartbeat pings is           *)
(* eventually terminated and disconnected, its bound player removed and    *)
(* its territory released, at the first ping round at which more than 60 s *)
(* have passed since its last pong; a connection that answers every ping   *)
(* is never disconnected by the heartbeat.                                 *)
C27_Heartbeat ==
  /\ [][ (last'.op = "ping" /\ timers' # timers) =>
           \A c \in DOMAIN connections :
             IF now - connections[c].lastPing > 60000
             THEN /\ c \notin DOMAIN connections'
                  /\ BoundPlayer(c) # None =>
                       /\ BoundPlayer(c) \notin DOMAIN players'
                       /\ \A t \in Tiles : tiles'[t].ownerId # BoundPlayer(c)
             ELSE /\ c \in DOMAIN connections'
                  /\ connections'[c] = connections[c]
                  /\ BoundPlayer(c) \in DOMAIN players =>
                       BoundPlayer(c) \in DOMAIN players'
      ]_vars
  /\ \A c \in Conns, T \in PongTimes :
       T + 60000 < MaxRounds * PingPeriod =>
         (SilentSince(c, T) ~> ~SilentSince(c, T))

(* the third ping round has terminated a connection silent since it opened *)
(* at time 0: its player is gone and its headquarters is ownerless         *)
C27_Witness ==
  /\ last.op = "ping"
  /\ now = 3 * PingPeriod
  /\ connections = << >>
  /\ Len(out) = 1
  /\ out[1].type = "player_left"
  /\ out[1].id \notin DOMAIN players
  /\ \E t \in Tiles :
       tiles[t].ownerId = None /\ tiles[t].structureType = "base_hq"

(* C28: on connect, the first event sent to the new connection is a full   *)
(* game_state snapshot that contains all current players, all tiles, all   *)
(* missiles currently in the missile registry and the elapsed game time.   *)
C28_ConnectSnapshot ==
  last.op = "connect" =>
    /\ Len(out) >= 1
    /\ out[1].type = "game_state"
    /\ out[1].to = { last.conn }
    /\ { "players", "tiles", "gameTime" } \subseteq out[1].data
    /\ DOMAIN missiles # {} => "missiles" \in out[1].data

(* C29: the game loop broadcasts a full game_state snapshot periodically,  *)
(* once every 10 ticks, independent of message arrival: from any state a   *)
(* full snapshot is broadcast again within a bounded number of ticks.  The *)
(* states from which the model still runs more than ten ticks are those up *)
(* to TickHorizon.                                                         *)
TickHorizon == (MaxRounds - 1) * TickPeriod
SnapshotBroadcast ==
  /\ last.op = "update"
  /\ Len(out) = 1
  /\ out[1].type = "game_state"
  /\ out[1].data = SnapshotFields
GlobeDone == globe.stage = "done"
TilesOfType(type) ==
  Cardinality({ n \in DOMAIN globe.tiles : globe.tiles[n].type = type })
GoldbergCount(f) == 10 * f * f + 2
DistinctIds ==
  \A m, n \in DOMAIN globe.tiles :
    m # n => globe.tiles[m].id # globe.tiles[n].id
SymmetricIrreflexive ==
  \A a \in DOMAIN globe.adjacencyMap :
    /\ a \notin globe.adjacencyMap[a]
    /\ \A b \in globe.adjacencyMap[a] :
         b \in DOMAIN globe.adjacencyMap /\ a \in globe.adjacencyMap[b]

MeshPoints ==
  { globe.subdividedVertices[n].point : n \in DOMAIN globe.subdividedVertices }
HeldTwice == Len(globe.subdividedVertices) - Cardinality(MeshPoints)

C31_FirstClaim ==
  \A p \in DOMAIN players, t \in Tiles :
    ( /\ \A u \in Tiles : tiles[u].ownerId # p
      /\ tiles[t].ownerId = None
      /\ terrainType(t) # "water" ) =>
      LET r == selectTile(Engine, p, t, now)
          gained == { u \in Tiles : r.tiles[u].ownerId = p } \ {t}
      IN /\ r.success
         /\ r.tiles[t].ownerId = p
         /\ r.tiles[t].structureType = "base_hq"
         /\ Cardinality(gained) <= 3
         /\ \A u \in gained : /\ u \in Neighbours(t)
                              /\ tiles[u].ownerId = None
                              /\ terrainType(u) # "water"
         /\ r.players[p].gold = players[p].gold
         /\ r.players[p].population = players[p].population
         /\ \A u \in Tiles :
              tiles[u].ownerId # None => r.tiles[u].ownerId = tiles[u].ownerId

(* a player has just made the first claim at tile 4 and holds it as the    *)
(* base with its two free land neighbours, for the starting population     *)
C31_Witness ==
  /\ last.op = "select_tile"
  /\ last.success
  /\ last.type = "claimed"
  /\ BoundPlayer(last.conn) \in DOMAIN players
  /\ LET p == BoundPlayer(last.conn)
     IN /\ { u \in Tiles : tiles[u].ownerId = p } = { 0, 3, 4 }
        /\ tiles[4].structureType = "base_hq"
        /\ players[p].population = StartPopulation
        /\ players[p].gold = StartGold * GoldUnit

(* C32: immediately after each tick, for every player who owns n >= 1      *)
(* tiles, each owned tile's population equals the player's population      *)
(* divided by n, so the populations of the player's tiles sum to the       *)
(* player's population; tiles owned by nobody are not changed by the tick. *)
RECURSIVE SumPopulation(_, _)
SumPopulation(tl, S) ==
  IF S = {} THEN 0
  ELSE LET t == CHOOSE x \in S : TRUE
       IN tl[t].population + SumPopulation(tl, S \ {t})

C32_EvenSpread ==
  LET r == update(Engine, now, lastUpdate) IN
    /\ \A p \in DOMAIN r.players :
         LET owned == { t \in Tiles : r.tiles[t].ownerId = p }
             n == Cardinality(owned)
         IN n >= 1 =>
              /\ \A t \in owned :
                   r.tiles[t].population * n = r.players[p].population * PopScale
              /\ SumPopulation(r.tiles, owned)
                   = r.players[p].population * PopScale
    /\ \A t \in Tiles : tiles[t].ownerId = None => r.tiles[t] = tiles[t]

(* the tick has just run on a player whose population has grown and who    *)
(* holds three tiles, each with a third of it                              *)
C32_Witness ==
  /\ last.op = "update"
  /\ \E p \in DOMAIN players :
       /\ players[p].population = StartPopulation + GrowthAmount
       /\ { t \in Tiles : tiles[t].ownerId = p } = { 0, 3, 4 }
       /\ \A t \in { 0, 3, 4 } :
            tiles[t].population * 3 = players[p].population * PopScale

(* C33: in the classification of a land tile below the mountain threshold, *)
(* for the same moisture a polar tile (|lat| >= 66.5) is never desert when *)
(* a temperate non-subtropical tile would be grass, and a tropical tile    *)
(* (|lat| < 23.5) is desert whenever the temperate tile would be.          *)
TemperateLatitudes ==
  { lat \in Latitudes : temperateZone(lat) /\ ~isSubtropical(lat) }

Classified ==
  globe.stage = "classified" /\ globe.terrainType \in { "desert", "grass" }

C33_LatitudeBias ==
  Classified =>
    \A ref \in TemperateLatitudes :
      LET temperate == generateTerrainType(ref, globe.elevNorm, globe.moisture)
      IN /\ (polarZone(globe.lat) /\ temperate = "grass")
              => globe.terrainType # "desert"
         /\ (equatorialZone(globe.lat) /\ temperate = "desert")
              => globe.terrainType = "desert"

(* the two halves of C33 on their own, and the thresholds as computed      *)
C33_PolesSuppress ==
  Classified =>
    \A ref \in TemperateLatitudes :
      (polarZone(globe.lat)
         /\ generateTerrainType(ref, globe.elevNorm, globe.moisture) = "grass")
        => globe.terrainType # "desert"

C33_TropicsRaise ==
  Classified =>
    \A ref \in TemperateLatitudes :
      (equatorialZone(globe.lat)
         /\ generateTerrainType(ref, globe.elevNorm, globe.moisture) = "desert")
        => globe.terrainType = "desert"

C33_Thresholds ==
  /\ \A lat \in TemperateLatitudes : DesertThresholds[lat + 181] = Divide(4, 10)
  /\ \A lat \in Latitudes :
       polarZone(lat) => DesertThresholds[lat + 181] = Divide(7, 10)
  /\ \A lat \in Latitudes :
       Abs(lat) <= SubtropicalFrom => DesertThresholds[lat + 181] = Divide(5, 10)
  /\ \A lat \in Latitudes :
       (equatorialZone(lat) /\ isSubtropical(lat) /\ lat > 0)
         => DesertThresholds[lat + 181] = Divide(4, 10)
  /\ \A lat \in Latitudes :
       (equatorialZone(lat) /\ isSubtropical(lat) /\ lat < 0)
         => BinaryLess(Divide(3, 10), DesertThresholds[lat + 181], 0)

(* C34: alliance referential integrity holds in every reachable state: the *)
(* leaderId of every alliance is one of its memberIds, every id in         *)
(* memberIds is an existing player whose allianceId is that alliance, and  *)
(* every player's allianceId names an existing alliance that lists the     *)
(* player.                                                                 *)
LeaderIsMember ==
  \A a \in DOMAIN alliances :
    alliances[a].leaderId \in Range(alliances[a].memberIds)

MembersExist ==
  \A a \in DOMAIN alliances :
    \A m \in Range(alliances[a].memberIds) :
      m \in DOMAIN players /\ players[m].allianceId = a

AllianceIdListed ==
  \A p \in DOMAIN players :
    players[p].allianceId # None =>
      /\ players[p].allianceId \in DOMAIN alliances
      /\ p \in Range(alliances[players[p].allianceId].memberIds)

C34_AllianceIntegrity == LeaderIsMember /\ MembersExist /\ AllianceIdListed

(* the same while nobody has disconnected: the leader's kick of itself     *)
C34_WithoutRemoval ==
  (\A c \in Conns : c \in DOMAIN connections) => LeaderIsMember

(* C35: in every reachable state the player id bound to an open connection *)
(* is the id of a player that exists in the Engine, and no two connections *)
(* are bound to the same player; a player removed by the tick's inactivity *)
(* pruning does not leave a connection bound to a missing player.          *)
BoundToExisting ==
  \A c \in DOMAIN connections :
    BoundPlayer(c) # None => BoundPlayer(c) \in DOMAIN players

BoundOnce ==
  \A c, d \in DOMAIN connections :
    (c # d /\ BoundPlayer(c) # None) => BoundPlayer(c) # BoundPlayer(d)

C35_BoundPlayers == BoundToExisting /\ BoundOnce

(* C36: a player who already owns at least one tile only ever gains        *)
(* ownership of tiles adjacent to a tile the player owns at that moment,   *)
(* both when claiming unowned tiles and when capturing an enemy tile       *)
(* through combat.                                                         *)
Gains(p, t) == tiles[t].ownerId # p /\ tiles'[t].ownerId = p

NextToOwn(p, t) == \E u \in Neighbours(t) : tiles[u].ownerId = p

C36_AdjacentGain ==
  [][ \A p \in DOMAIN players, t \in Tiles :
        ((\E u \in Tiles : tiles[u].ownerId = p) /\ Gains(p, t))
          => NextToOwn(p, t) ]_vars

(* the same for unowned tiles only: the expansion                          *)
C36_AdjacentClaim ==
  [][ \A p \in DOMAIN players, t \in Tiles :
        ((\E u \in Tiles : tiles[u].ownerId = p) /\ Gains(p, t)
           /\ tiles[t].ownerId = None)
          => NextToOwn(p, t) ]_vars

(* C37: in every reachable state the ownerId of every owned tile is the id *)
(* of a player that exists in the player registry: no sequence of claims,  *)
(* combat, missile impacts, disconnections and pruning leaves a tile owned *)
(* by a removed player.                                                    *)
C37_OwnersExist ==
  \A t \in Tiles : tiles[t].ownerId # None => tiles[t].ownerId \in DOMAIN players

(* the tick has pruned a player whose connection is still open: its home   *)
(* tile has no owner, and another player holds tiles                       *)
C37_Witness ==
  /\ last.op = "update"
  /\ \E c \in DOMAIN connections :
       BoundPlayer(c) # None /\ BoundPlayer(c) \notin DOMAIN players
  /\ \E t \in Tiles :
       tiles[t].structureType = "base_hq" /\ tiles[t].ownerId = None
  /\ \E t \in Tiles : tiles[t].ownerId \in DOMAIN players

(* C38: every successful action of a player (claim, combat, ratio or       *)
(* deployment change, build, missile launch, alliance operation) refreshes *)
(* that player's lastActive, so the tick prunes a player only if the       *)
(* player performed no successful action during the preceding 30 minutes.  *)
ActionOps ==
  { "select_tile", "expand_territory", "adjust_worker_ratio",
    "adjust_troop_deployment", "build_structure", "launch_missile",
    "create_alliance", "join_alliance", "leave_alliance",
    "kick_from_alliance" }

(* the step is a successful action of the player bound to connection c     *)
ActsIn(c, ops) ==
  /\ \E op \in ops : Handled(op, c)
  /\ last'.success
  /\ last'.type # "building_options"
  /\ BoundPlayer(c) \in DOMAIN players'

Refreshed(c) == players'[BoundPlayer(c)].lastActive = now

(* the handler that ran last, at the present time, was a successful action *)
(* of player p                                                             *)
ActedNow(p) ==
  /\ last.op \in ActionOps
  /\ last.success
  /\ last.type # "building_options"
  /\ last.conn \in DOMAIN connections
  /\ BoundPlayer(last.conn) = p

Prunes(p) == last'.op = "update" /\ p \in DOMAIN players /\ p \notin DOMAIN players'

C38_ActiveNotPruned ==
  [][ /\ \A c \in DOMAIN connections : ActsIn(c, ActionOps) => Refreshed(c)
      /\ \A p \in DOMAIN players : Prunes(p) => ~ActedNow(p) ]_vars

(* the two halves on their own, and the refresh by kind of action          *)
C38_PrunedIdle ==
  [][ \A p \in DOMAIN players : Prunes(p) => ~ActedNow(p) ]_vars

C38_Refreshes ==
  [][ \A c \in DOMAIN connections : ActsIn(c, ActionOps) => Refreshed(c) ]_vars

C38_ClaimRefreshes ==
  [][ \A c \in DOMAIN connections :
        (ActsIn(c, { "select_tile" }) /\ last'.type = "claimed")
          => Refreshed(c) ]_vars

C38_CombatRefreshes ==
  [][ \A c \in DOMAIN connections :
        (ActsIn(c, { "select_tile" }) /\ last'.type \in { "captured", "draw" })
          => Refreshed(c) ]_vars

C38_SettingsRefresh ==
  [][ \A c \in DOMAIN connections :
        ActsIn(c, { "adjust_worker_ratio", "adjust_troop_deployment" })
          => Refreshed(c) ]_vars

C38_BuildRefreshes ==
  [][ \A c \in DOMAIN connections :
        ActsIn(c, { "build_structure" }) => Refreshed(c) ]_vars

C38_LaunchRefreshes ==
  [][ \A c \in DOMAIN connections :
        ActsIn(c, { "launch_missile" }) => Refreshed(c) ]_vars

(* C39: removing a player while one of the player's missiles is in flight  *)
(* does not cancel the missile: the record stays in the missile registry,  *)
(* the scheduled impact still fires exactly once, applies its damage and   *)
(* is broadcast as missile_impact, and the record is deleted afterwards.   *)
InFlight(m) ==
  /\ m \in DOMAIN missiles
  /\ m \in DOMAIN mlog
  /\ mlog[m].impacts = 0

Orphan(m) == InFlight(m) /\ missiles[m].playerId \notin DOMAIN players

(* the step removes the launcher of missile m                              *)
LauncherRemoved(m) ==
  /\ missiles[m].playerId \in DOMAIN players
  /\ missiles[m].playerId \notin DOMAIN players'

(* the step is the impact callback of missile m                            *)
ImpactFires(m) ==
  /\ last'.op = "impact"
  /\ \E tm \in timers \ timers' : tm.kind = "impact" /\ tm.id = m

ImpactApplied(m) ==
  /\ last'.success
  /\ \A t \in Tiles :
       tiles'[t] = IF t \in blastRadiusTiles[missiles[m].toTileId]
                   THEN ApplyBlast(tiles[t]) ELSE tiles[t]
  /\ out' = << BroadcastAll("missile_impact", m) >>
  /\ m \in DOMAIN missiles'
  /\ \E tm \in timers' : tm.kind = "delete" /\ tm.id = m

C39_PruningKeepsMissiles ==
  LET G == update(Engine, now + InactivityThreshold + 1, lastUpdate) IN
    /\ DOMAIN G.players = {}
    /\ G.missiles = missiles
    /\ G.timers = timers

C39_PruningWitness == \E m \in DOMAIN missiles : InFlight(m) /\ ~Orphan(m)

PlayerLeft(evs, p) ==
  Cardinality({ i \in 1 .. Len(evs) :
                  evs[i].type = "player_left" /\ evs[i].id = p })

(* the step is the heartbeat's termination of connection c                 *)
Terminates(c) ==
  /\ last'.op = "ping"
  /\ c \in DOMAIN connections
  /\ Stale(c)
  /\ \E tm \in timers : tm.kind = "ping" /\ tm.due <= now /\ tm \notin timers'

(* the step is the close event of the terminated socket c                  *)
ClosesAgain(c) ==
  /\ last'.op = "close"
  /\ last'.conn = c
  /\ \E tm \in timers \ timers' : tm.kind = "close" /\ tm.id = c

C40_IdempotentDisconnect ==
  /\ [][ \A c \in Conns :
           (Terminates(c) /\ BoundPlayer(c) # None) =>
             /\ BoundPlayer(c) \notin DOMAIN players'
             /\ PlayerLeft(out', BoundPlayer(c)) = 1
             /\ c \notin DOMAIN connections'
             /\ ClosePending(c)' ]_vars
  /\ [][ \A c \in Conns :
           ClosesAgain(c) =>
             /\ out' = << >>
             /\ players' = players
             /\ tiles' = tiles
             /\ missiles' = missiles
             /\ alliances' = alliances
             /\ connections' = connections ]_vars

(* the close event of the socket that the heartbeat terminated has just    *)
(* been handled: the player that was bound to it is gone, its headquarters *)
(* is ownerless, and the other connection and its player are in place      *)
C40_Witness ==
  /\ last.op = "close"
  /\ last.conn \notin DOMAIN connections
  /\ out = << >>
  /\ \E t \in Tiles :
       tiles[t].ownerId = None /\ tiles[t].structureType = "base_hq"
  /\ \E c \in DOMAIN connections : BoundPlayer(c) \in DOMAIN players

====
